---- MODULE Spec2Model ----
(***************************************************************************)
(* Model of the authenticated media acquisition pipeline of bilibili-mcp:  *)
(*   - the browser pool (internal/browser: BrowserPool.Get / Put /         *)
(*     GetWithAuth) and the tool handlers that use it,                     *)
(*   - the transfer engine (MediaDownloadService.downloadStream and its    *)
(*     callers),                                                           *)
(*   - the stream resolver (MediaDownloadService.DownloadMedia,            *)
(*     getOptimalStream, fallbackToPlayUrl, getAvailableQualities).        *)
(* Each part has its own specification over the shared variables; the     *)
(* variables of the other parts stay at their initial values.              *)
(***************************************************************************)
EXTENDS Integers, Sequences, FiniteSets, TLC

(***************************************************************************)
(* Bounds and program constants                                            *)
(***************************************************************************)
\* cfg.Browser.PoolSize: the number of browser instances created at
\* construction (viper.SetDefault("browser.pool_size", 2)).
PoolSize == 2

\* Tool calls that can be in flight at once.
NumCallers == 3

\* Seconds that pass in one step of the clock.
TickStep == 15

\* time.After(30 * time.Second) in BrowserPool.Get.
GetTimeout == 30

Instances == 1..PoolSize
Callers == 1..NumCallers

\* No instance (a caller that holds nothing).
NoInstance == 0

VARIABLES
    \* ---- browser pool ----
    browsers,     \* p.browsers: the instances created at construction
    available,    \* p.available: the buffered channel, as a FIFO sequence
    InUse,        \* instance.InUse for every instance
    pc,           \* where each tool call stands
    held,         \* the instance a caller got from Get and has not Put back
    waited,       \* seconds the caller's Get spent blocked in the select
    nputs,        \* Puts made for the caller's current (or last) call
    ctxOpen,      \* the caller's browser sub-context is open
    result,       \* how the caller's last call ended
    \* ---- transfer engine ----
    fs,           \* the output directory: file name -> size, or NoFile
    jpc,          \* where each download request stands
    jpath,        \* the request's destination (absPath / outputPath)
    existed,      \* what os.Stat(absPath) told the request's caller
    gets,         \* GET requests for media bytes issued by the request
    written,      \* bytes io.Copy has written for the request
    jres,         \* what the request returned
    downloads,    \* per destination: transfers that returned success
    ctxDone,      \* the request's context is cancelled or past its deadline
    \* ---- stream resolver ----
    rpc,          \* where the resolution of the current request stands
    opts,         \* DownloadOptions of the request (MediaType, Quality)
    calls,        \* GetVideoStream / GetPlayUrl calls made so far, in order
    via,          \* the representation the resolution ended with
    streamData,   \* the VideoStreamData handed to the download step
    currentQuality,      \* StreamResult.CurrentQuality / result.CurrentQuality
    availableQualities,  \* the catalog returned with the result
    manifestIds,         \* ids of the video tracks the catalog probe listed
    resultQuality,       \* MediaDownloadResult.Quality
    resolveCtxDone,      \* the request's ctx is done while it is being resolved
    \* ---- track selection and artifacts ----
    dpc,          \* where the download of the current request stands
    dopts,        \* DownloadOptions of that request (MediaType, Quality)
    dstream,      \* the VideoStreamData the download step received
    dresult,      \* the MediaDownloadResult being filled in (nil on error)
    statted,      \* the paths os.Stat found present for this request
    transfers,    \* the downloadStream calls of this request, in order
    muxedAt,      \* qualities at which the video has a muxed representation
    derr,         \* the error DownloadMedia returned ("" when none)
    \* ---- rate limiter ----
    rateLimiter,  \* the map operation -> time of the last admitted call
    rateMutex,    \* the caller holding rateMutex, or Unlocked
    clock,        \* the wall clock, in seconds
    rlpc,         \* where each checkRateLimit call stands
    operation,    \* the key each call was made with
    now,          \* the `now` each call read
    lastTime,     \* the map entry each call read (NoTime when absent)
    admitted,     \* per key, the times of the calls admitted so far
    rlres,        \* how each caller's last checkRateLimit call ended
    \* ---- account store ----
    accounts,     \* accounts.json: the stored account list, in file order
    cookieFiles,  \* the account names that have a cookie file
    lastOp,       \* the last account operation, its argument and outcome
    \* ---- destination paths ----
    destinations, \* the requests whose destination paths were computed
    \* ---- transfers to one destination ----
    dirent,       \* the directory: "final" / "temp" -> inode, or NoFile
    inode,        \* inode -> the chunks its file holds
    nextInode,    \* the next inode os.Create makes
    shpc,         \* where each of the concurrent downloadStream calls stands
    tempFile,     \* the inode each call's tempFile refers to
    offset,       \* the write offset of each call's tempFile, in chunks
    shres,        \* how each call ended
    \* ---- pool shutdown ----
    closed,       \* p.closed (and p.available is a closed channel)
    \* ---- merged downloads over a lasting output directory ----
    outputDir,    \* the files in s.outputDir
    atCall        \* the directory when the current call began, and the
                  \* error of the call before it

poolVars == <<browsers, available, InUse, pc, held, waited, nputs, ctxOpen, result>>

transferVars == <<fs, jpc, jpath, existed, gets, written, jres, downloads,
                  ctxDone>>

resolveVars == <<rpc, opts, calls, via, streamData, currentQuality,
                 availableQualities, manifestIds, resultQuality,
                 resolveCtxDone>>

deliverVars == <<dpc, dopts, dstream, dresult, statted, transfers, muxedAt, derr>>

vars == <<browsers, available, InUse, pc, held, waited, nputs, ctxOpen, result,
          fs, jpc, jpath, existed, gets, written, jres, downloads, ctxDone,
          rpc, opts, calls, via, streamData, currentQuality,
          availableQualities, manifestIds, resultQuality, resolveCtxDone,
          dpc, dopts, dstream, dresult, statted, transfers, muxedAt, derr,
          rateLimiter, rateMutex, clock, rlpc, operation, now, lastTime,
          admitted, rlres, accounts, cookieFiles, lastOp, destinations,
          dirent, inode, nextInode, shpc, tempFile, offset, shres, closed,
          outputDir, atCall>>

mergeVars == <<outputDir, atCall>>

sharedVars == <<dirent, inode, nextInode, shpc, tempFile, offset, shres>>

accountVars == <<accounts, cookieFiles, lastOp>>

rateVars == <<rateLimiter, rateMutex, clock, rlpc, operation, now, lastTime,
              admitted, rlres>>

\* The state outside the pool, the transfer engine, the resolver and the
\* download step.
restVars == <<rateVars, accountVars, destinations, sharedVars, closed,
              mergeVars>>

Range(s) == {s[i] : i \in DOMAIN s}

Min(a, b) == IF a < b THEN a ELSE b

(***************************************************************************)
(* Rate limiter: state                                                     *)
(***************************************************************************)
\* Tool calls that can be inside checkRateLimit at once.
NumRateCallers == 2

\* Seconds the clock advances between two observations, and the last
\* second observed.
ClockStep == 5

MaxClock == 20

RateCallers == 1..NumRateCallers

\* Rate-limit keys as the handlers build them (operation, account, target).
Keys == {"like_video_a_BV1", "reply_comment_a_BV1"}

\* The zero value of an absent map entry / rateMutex not held.
NoTime == -1

Unlocked == 0

\* `rateLimiter = make(map[string]time.Time)`, rateMutex unlocked, no call
\* in progress.
NoRateState ==
    /\ rateLimiter = [k \in Keys |-> NoTime]
    /\ rateMutex = Unlocked
    /\ clock = 0
    /\ rlpc = [c \in RateCallers |-> "idle"]
    /\ operation = [c \in RateCallers |-> "like_video_a_BV1"]
    /\ now = [c \in RateCallers |-> 0]
    /\ lastTime = [c \in RateCallers |-> NoTime]
    /\ admitted = [k \in Keys |-> <<>>]
    /\ rlres = [c \in RateCallers |-> "none"]

(***************************************************************************)
(* Account store: state                                                    *)
(***************************************************************************)
\* Account names given to the login tool and to the account operations.
AccountNames == {"a", "b", "c"}

NoOp == [op |-> "none", name |-> "", ok |-> TRUE]

\* No accounts.json and no cookie file yet (LoadAccounts returns the empty
\* list).
EmptyStore ==
    /\ accounts = <<>>
    /\ cookieFiles = {}
    /\ lastOp = NoOp

(***************************************************************************)
(* Transfers to one destination: state                                     *)
(***************************************************************************)
\* Files os.Create can make before the directory is left alone.
MaxInodes == 3

\* Chunks of the response body (the same URL, so the same body, for every
\* call).
BodyChunks == 2

\* Concurrent download_media calls for the same video, type and quality.
Sharers == {1, 2}

Inodes == 1..MaxInodes

\* The output directory is empty and no call is running.
NoSharedTransfer ==
    /\ dirent = [n \in {"final", "temp"} |-> -1]
    /\ inode = [i \in Inodes |-> {}]
    /\ nextInode = 1
    /\ shpc = [j \in Sharers |-> "idle"]
    /\ tempFile = [j \in Sharers |-> 0]
    /\ offset = [j \in Sharers |-> 0]
    /\ shres = [j \in Sharers |-> "none"]

RestInit ==
    /\ NoRateState
    /\ EmptyStore
    /\ destinations = <<>>
    /\ NoSharedTransfer
    /\ closed = FALSE
    /\ outputDir = {}
    /\ atCall = [dir |-> {}, prev |-> ""]

(***************************************************************************)
(* Browser pool                                                            *)
(***************************************************************************)
\* NewBrowserPool: PoolSize instances are created, appended to p.browsers and
\* sent to p.available; no call is in flight.
NewBrowserPool ==
    /\ browsers = [i \in Instances |-> i]
    /\ available = [i \in Instances |-> i]
    /\ InUse = [i \in Instances |-> FALSE]
    /\ pc = [c \in Callers |-> "idle"]
    /\ held = [c \in Callers |-> NoInstance]
    /\ waited = [c \in Callers |-> 0]
    /\ nputs = [c \in Callers |-> 0]
    /\ ctxOpen = [c \in Callers |-> FALSE]
    /\ result = [c \in Callers |-> "none"]

\* The channel send of Put: `select { case p.available <- instance: default: }`.
\* A full channel drops the instance (the default branch).
Send(ch, instance) ==
    IF Len(ch) < PoolSize THEN Append(ch, instance) ELSE ch

\* Put with the channel send left out: the instance is marked free but never
\* reaches the channel.
PutNoSend(c) ==
    /\ InUse' = [InUse EXCEPT ![held[c]] = FALSE]
    /\ available' = available
    /\ held' = [held EXCEPT ![c] = NoInstance]
    /\ nputs' = [nputs EXCEPT ![c] = @ + 1]

\* BrowserPool.Put(instance) by caller c: InUse = false, then the
\* non-blocking send.
Put(c) ==
    /\ InUse' = [InUse EXCEPT ![held[c]] = FALSE]
    /\ available' = Send(available, held[c])
    /\ held' = [held EXCEPT ![c] = NoInstance]
    /\ nputs' = [nputs EXCEPT ![c] = @ + 1]

\* A failure branch of GetWithAuth after the sub-context exists:
\* context.Close(); p.Put(instance); return nil, nil, err.
FailWithContext(c, err) ==
    /\ Put(c)
    /\ ctxOpen' = [ctxOpen EXCEPT ![c] = FALSE]
    /\ pc' = [pc EXCEPT ![c] = "idle"]
    /\ result' = [result EXCEPT ![c] = err]
    /\ UNCHANGED <<browsers, waited>>

\* A handler calls GetWithAuth, which calls Get: the pool is open, so the
\* caller reaches the select.
Call(c) ==
    /\ pc[c] = "idle"
    /\ pc' = [pc EXCEPT ![c] = "Get"]
    /\ waited' = [waited EXCEPT ![c] = 0]
    /\ nputs' = [nputs EXCEPT ![c] = 0]
    /\ result' = [result EXCEPT ![c] = "none"]
    /\ UNCHANGED <<browsers, available, InUse, held, ctxOpen>>

\* Get reading the head of the channel without taking it out.
GetReceivePeek(c) ==
    /\ pc[c] = "Get"
    /\ available # <<>>
    /\ held' = [held EXCEPT ![c] = Head(available)]
    /\ InUse' = [InUse EXCEPT ![Head(available)] = TRUE]
    /\ pc' = [pc EXCEPT ![c] = "NewContext"]
    /\ UNCHANGED <<browsers, available, waited, nputs, ctxOpen, result>>

\* Get, `case instance := <-p.available`: the receive, then InUse = true.
GetReceive(c) ==
    /\ pc[c] = "Get"
    /\ available # <<>>
    /\ held' = [held EXCEPT ![c] = Head(available)]
    /\ available' = Tail(available)
    /\ InUse' = [InUse EXCEPT ![Head(available)] = TRUE]
    /\ pc' = [pc EXCEPT ![c] = "NewContext"]
    /\ UNCHANGED <<browsers, waited, nputs, ctxOpen, result>>

\* Get giving up without having waited for the timeout.
GetTimedOutEarly(c) ==
    /\ pc[c] = "Get"
    /\ pc' = [pc EXCEPT ![c] = "idle"]
    /\ result' = [result EXCEPT ![c] = "timeout"]
    /\ UNCHANGED <<browsers, available, InUse, held, waited, nputs, ctxOpen>>

\* Get, `case <-time.After(30 * time.Second)`: the error goes back through
\* GetWithAuth unchanged (`return nil, nil, err`) and the handler returns it.
GetTimedOut(c) ==
    /\ pc[c] = "Get"
    /\ waited[c] >= GetTimeout
    /\ pc' = [pc EXCEPT ![c] = "idle"]
    /\ result' = [result EXCEPT ![c] = "timeout"]
    /\ UNCHANGED <<browsers, available, InUse, held, waited, nputs, ctxOpen>>

\* Time passes for the callers blocked in the select. A receive from a
\* non-empty channel does not block, so no time passes while an instance is
\* available and a caller is at the select.
Tick ==
    /\ available = <<>>
    /\ \E c \in Callers : pc[c] = "Get" /\ waited[c] < GetTimeout
    /\ waited' = [c \in Callers |->
                    IF pc[c] = "Get" THEN Min(waited[c] + TickStep, GetTimeout)
                    ELSE waited[c]]
    /\ UNCHANGED <<browsers, available, InUse, pc, held, nputs, ctxOpen, result>>

\* instance.Browser.NewContext: on failure Put and return the error. With an
\* account name given the next step is the cookie load, without one the
\* default-account lookup. Get is over: its wait is no longer tracked.
NewContext(c) ==
    /\ pc[c] = "NewContext"
    /\ \/ /\ Put(c)
          /\ pc' = [pc EXCEPT ![c] = "idle"]
          /\ result' = [result EXCEPT ![c] = "context_error"]
          /\ waited' = [waited EXCEPT ![c] = 0]
          /\ UNCHANGED <<browsers, ctxOpen>>
       \/ /\ \E named \in BOOLEAN :
                pc' = [pc EXCEPT ![c] =
                         IF named THEN "LoadCookies" ELSE "GetDefaultAccount"]
          /\ ctxOpen' = [ctxOpen EXCEPT ![c] = TRUE]
          /\ waited' = [waited EXCEPT ![c] = 0]
          /\ UNCHANGED <<browsers, available, InUse, held, nputs, result>>

\* accountManager.GetDefaultAccount() when accountName == "".
GetDefaultAccount(c) ==
    /\ pc[c] = "GetDefaultAccount"
    /\ \/ FailWithContext(c, "default_account_error")
       \/ /\ pc' = [pc EXCEPT ![c] = "LoadCookies"]
          /\ UNCHANGED <<browsers, available, InUse, held, waited, nputs,
                         ctxOpen, result>>

\* The cookie-load failure branch returning the error without p.Put(instance).
LoadCookiesLeak(c) ==
    /\ pc[c] = "LoadCookies"
    /\ \/ /\ ctxOpen' = [ctxOpen EXCEPT ![c] = FALSE]
          /\ pc' = [pc EXCEPT ![c] = "idle"]
          /\ result' = [result EXCEPT ![c] = "load_cookies_error"]
          /\ UNCHANGED <<browsers, available, InUse, held, waited, nputs>>
       \/ /\ pc' = [pc EXCEPT ![c] = "AddCookies"]
          /\ UNCHANGED <<browsers, available, InUse, held, waited, nputs,
                         ctxOpen, result>>

\* The cookie-load failure branch returning the instance but leaving the
\* sub-context open.
LoadCookiesKeepsContext(c) ==
    /\ pc[c] = "LoadCookies"
    /\ \/ /\ Put(c)
          /\ pc' = [pc EXCEPT ![c] = "idle"]
          /\ result' = [result EXCEPT ![c] = "load_cookies_error"]
          /\ UNCHANGED <<browsers, waited, ctxOpen>>
       \/ /\ pc' = [pc EXCEPT ![c] = "AddCookies"]
          /\ UNCHANGED <<browsers, available, InUse, held, waited, nputs,
                         ctxOpen, result>>

\* loginService.LoadCookies(accountName): os.ReadFile of the cookie file and
\* json.Unmarshal; nothing is written.
LoadCookies(c) ==
    /\ pc[c] = "LoadCookies"
    /\ \/ FailWithContext(c, "load_cookies_error")
       \/ /\ pc' = [pc EXCEPT ![c] = "AddCookies"]
          /\ UNCHANGED <<browsers, available, InUse, held, waited, nputs,
                         ctxOpen, result>>

\* context.AddCookies(optionalCookies).
AddCookies(c) ==
    /\ pc[c] = "AddCookies"
    /\ \/ FailWithContext(c, "add_cookies_error")
       \/ /\ pc' = [pc EXCEPT ![c] = "NewPage"]
          /\ UNCHANGED <<browsers, available, InUse, held, waited, nputs,
                         ctxOpen, result>>

\* context.NewPage(): on success GetWithAuth returns the page and the
\* cleanup closure, and the handler defers cleanup and runs its body.
NewPage(c) ==
    /\ pc[c] = "NewPage"
    /\ \/ FailWithContext(c, "new_page_error")
       \/ /\ pc' = [pc EXCEPT ![c] = "handler"]
          /\ UNCHANGED <<browsers, available, InUse, held, waited, nputs,
                         ctxOpen, result>>

\* handleDownloadMedia after `defer cleanup()`: page.Context().Cookies()
\* succeeds, the cookie map and the API client are built, and
\* mediaDownloadService.DownloadMedia(ctx, videoID, opts) is entered. (A
\* failed cookie read returns through HandlerReturn.) Nothing is released
\* here: cleanup is deferred to the return of the handler.
Cookies(c) ==
    /\ pc[c] = "handler"
    /\ pc' = [pc EXCEPT ![c] = "DownloadMedia"]
    /\ UNCHANGED <<browsers, available, InUse, held, waited, nputs, ctxOpen,
                   result>>

\* The ways a handler body ends once cleanup is deferred: it returns its
\* result, returns an error (cookie read, download, ...), or its request
\* context is cancelled.
HandlerOutcomes == {"ok", "handler_error", "cancelled"}

\* The handler running cleanup twice (an explicit call besides the defer).
HandlerReturnTwice(c) ==
    /\ pc[c] \in {"handler", "DownloadMedia"}
    /\ \E out \in {"ok", "handler_error", "cancelled"} :
          result' = [result EXCEPT ![c] = out]
    /\ InUse' = [InUse EXCEPT ![held[c]] = FALSE]
    /\ available' = Send(Send(available, held[c]), held[c])
    /\ held' = [held EXCEPT ![c] = NoInstance]
    /\ nputs' = [nputs EXCEPT ![c] = @ + 2]
    /\ ctxOpen' = [ctxOpen EXCEPT ![c] = FALSE]
    /\ pc' = [pc EXCEPT ![c] = "idle"]
    /\ UNCHANGED <<browsers, waited>>

\* The handler returns and the deferred cleanup runs: page.Close(),
\* context.Close(), p.Put(instance).
HandlerReturn(c) ==
    /\ pc[c] \in {"handler", "DownloadMedia"}
    /\ \E out \in HandlerOutcomes : result' = [result EXCEPT ![c] = out]
    /\ Put(c)
    /\ ctxOpen' = [ctxOpen EXCEPT ![c] = FALSE]
    /\ pc' = [pc EXCEPT ![c] = "idle"]
    /\ UNCHANGED <<browsers, waited>>

PoolNext ==
    \/ Tick /\ UNCHANGED <<transferVars, resolveVars, deliverVars, restVars>>
    \/ \E c \in Callers : Call(c) /\ UNCHANGED <<transferVars, resolveVars, deliverVars, restVars>>
    \/ \E c \in Callers : GetReceive(c) /\ UNCHANGED <<transferVars, resolveVars, deliverVars, restVars>>
    \/ \E c \in Callers : GetTimedOut(c) /\ UNCHANGED <<transferVars, resolveVars, deliverVars, restVars>>
    \/ \E c \in Callers : NewContext(c) /\ UNCHANGED <<transferVars, resolveVars, deliverVars, restVars>>
    \/ \E c \in Callers : GetDefaultAccount(c) /\ UNCHANGED <<transferVars, resolveVars, deliverVars, restVars>>
    \/ \E c \in Callers : LoadCookies(c) /\ UNCHANGED <<transferVars, resolveVars, deliverVars, restVars>>
    \/ \E c \in Callers : AddCookies(c) /\ UNCHANGED <<transferVars, resolveVars, deliverVars, restVars>>
    \/ \E c \in Callers : NewPage(c) /\ UNCHANGED <<transferVars, resolveVars, deliverVars, restVars>>
    \/ \E c \in Callers : Cookies(c) /\ UNCHANGED <<transferVars, resolveVars, deliverVars, restVars>>
    \/ \E c \in Callers : HandlerReturn(c) /\ UNCHANGED <<transferVars, resolveVars, deliverVars, restVars>>

(***************************************************************************)
(* Transfer engine                                                         *)
(***************************************************************************)
\* Download requests that can be in flight at once; each destination path
\* belongs to one artifact.
NumJobs == 2

\* Longest response body, in chunks of io.Copy.
MaxBody == 2

Jobs == 1..NumJobs

Paths == 1..NumJobs

\* A name that is not in the directory.
NoFile == -1

\* outputPath, and tempPath := outputPath + ".downloading".
Final(p) == <<p, "">>

Temp(p) == <<p, ".downloading">>

FileNames == {Final(p) : p \in Paths} \cup {Temp(p) : p \in Paths}

NoResult == [err |-> "none", size |-> 0, note |-> "none"]

\* The output directory is empty and no request is in flight.
EmptyOutputDir ==
    /\ fs = [f \in FileNames |-> NoFile]
    /\ jpc = [j \in Jobs |-> "idle"]
    /\ jpath = [j \in Jobs |-> 0]
    /\ existed = [j \in Jobs |-> FALSE]
    /\ gets = [j \in Jobs |-> 0]
    /\ written = [j \in Jobs |-> 0]
    /\ jres = [j \in Jobs |-> NoResult]
    /\ downloads = [p \in Paths |-> 0]
    /\ ctxDone = [j \in Jobs |-> FALSE]

\* Destinations of the requests in flight.
Busy == {jpath[j] : j \in {k \in Jobs : jpc[k] # "idle"}}

\* The request is issued whatever is on disk (no existence check).
StartWithoutStat(j, p) ==
    /\ jpc[j] = "idle"
    /\ p \notin Busy
    /\ jpath' = [jpath EXCEPT ![j] = p]
    /\ existed' = [existed EXCEPT ![j] = fs[Final(p)] # NoFile]
    /\ jpc' = [jpc EXCEPT ![j] = "Do"]
    /\ UNCHANGED <<fs, gets, written, jres, downloads, ctxDone>>

\* A caller of downloadStream (downloadAudioOnly, downloadVideoOnly,
\* downloadMP4) reaches its existence check for destination p:
\* `if fileInfo, err := os.Stat(absPath); err == nil` returns the file's size
\* with the note "exists, skipped"; otherwise downloadStream is called.
\* Requests in flight have different destinations.
StatAndStart(j, p) ==
    /\ jpc[j] = "idle"
    /\ p \notin Busy
    /\ jpath' = [jpath EXCEPT ![j] = p]
    /\ existed' = [existed EXCEPT ![j] = fs[Final(p)] # NoFile]
    /\ IF fs[Final(p)] # NoFile
       THEN /\ jpc' = [jpc EXCEPT ![j] = "returned"]
            /\ jres' = [jres EXCEPT ![j] =
                          [err |-> "none", size |-> fs[Final(p)], note |-> "exists"]]
       ELSE /\ jpc' = [jpc EXCEPT ![j] = "Do"]
            /\ jres' = jres
    /\ UNCHANGED <<fs, gets, written, downloads, ctxDone>>

\* downloadStream returns (0, err): its caller wraps the error and returns.
Fail(j, err) ==
    /\ jpc' = [jpc EXCEPT ![j] = "returned"]
    /\ jres' = [jres EXCEPT ![j] = [err |-> err, size |-> 0, note |-> "none"]]

\* client.Do(req) and os.Create(tempPath): a transport error, a status
\* other than 200, a failure to create the temp file, or the temp file
\* created empty. The request carries ctx (http.NewRequestWithContext), so
\* with a cancelled or expired context client.Do returns the context's
\* error.
Do(j) ==
    /\ jpc[j] = "Do"
    /\ gets' = [gets EXCEPT ![j] = @ + 1]
    /\ \/ /\ \E err \in {"http_error", "http_status", "create_error"} :
                Fail(j, IF ctxDone[j] THEN "context" ELSE err)
          /\ UNCHANGED <<fs, written>>
       \/ /\ ~ctxDone[j]
          /\ fs' = [fs EXCEPT ![Temp(jpath[j])] = 0]
          /\ written' = [written EXCEPT ![j] = 0]
          /\ jpc' = [jpc EXCEPT ![j] = "Copy"]
          /\ jres' = jres
    /\ UNCHANGED <<jpath, existed, downloads, ctxDone>>

\* io.Copy failing with the temp file left in place.
CopyKeepsTemp(j) ==
    /\ jpc[j] = "Copy"
    /\ \/ /\ written[j] < MaxBody
          /\ written' = [written EXCEPT ![j] = @ + 1]
          /\ fs' = [fs EXCEPT ![Temp(jpath[j])] = @ + 1]
          /\ UNCHANGED <<jpc, jres>>
       \/ /\ Fail(j, "copy_error")
          /\ UNCHANGED <<fs, written>>
       \/ /\ jpc' = [jpc EXCEPT ![j] = "Rename"]
          /\ UNCHANGED <<fs, written, jres>>
    /\ UNCHANGED <<jpath, existed, gets, downloads, ctxDone>>

\* io.Copy continuing to read the body of a request whose context is done.
CopyIgnoresContext(j) ==
    /\ jpc[j] = "Copy"
    /\ \/ /\ written[j] < MaxBody
          /\ written' = [written EXCEPT ![j] = @ + 1]
          /\ fs' = [fs EXCEPT ![Temp(jpath[j])] = @ + 1]
          /\ UNCHANGED <<jpc, jres>>
       \/ /\ fs' = [fs EXCEPT ![Temp(jpath[j])] = NoFile]
          /\ Fail(j, IF ctxDone[j] THEN "context" ELSE "copy_error")
          /\ UNCHANGED written
       \/ /\ jpc' = [jpc EXCEPT ![j] = "Rename"]
          /\ UNCHANGED <<fs, written, jres>>
    /\ UNCHANGED <<jpath, existed, gets, downloads, ctxDone>>

\* io.Copy(tempFile, progressReader): one more chunk reaches the temp file,
\* or the read or the write fails (network error, disk error) and the temp
\* file is removed, or the body ends. Once the request's context is done
\* (cancelled, or past the deadline) the body read returns the context's
\* error, so only the failure remains.
Copy(j) ==
    /\ jpc[j] = "Copy"
    /\ \/ /\ ~ctxDone[j]
          /\ written[j] < MaxBody
          /\ written' = [written EXCEPT ![j] = @ + 1]
          /\ fs' = [fs EXCEPT ![Temp(jpath[j])] = @ + 1]
          /\ UNCHANGED <<jpc, jres>>
       \/ /\ fs' = [fs EXCEPT ![Temp(jpath[j])] = NoFile]
          /\ Fail(j, IF ctxDone[j] THEN "context" ELSE "copy_error")
          /\ UNCHANGED written
       \/ /\ ~ctxDone[j]
          /\ jpc' = [jpc EXCEPT ![j] = "Rename"]
          /\ UNCHANGED <<fs, written, jres>>
    /\ UNCHANGED <<jpath, existed, gets, downloads, ctxDone>>

\* The final file written as a copy, the temp file left behind.
RenameCopies(j) ==
    /\ jpc[j] = "Rename"
    /\ fs' = [fs EXCEPT ![Final(jpath[j])] = fs[Temp(jpath[j])]]
    /\ jpc' = [jpc EXCEPT ![j] = "returned"]
    /\ jres' = [jres EXCEPT ![j] =
                  [err |-> "none", size |-> written[j], note |-> "downloaded"]]
    /\ downloads' = [downloads EXCEPT ![jpath[j]] = Min(@ + 1, 2)]
    /\ UNCHANGED <<jpath, existed, gets, written, ctxDone>>

\* tempFile.Close(); os.Rename(tempPath, outputPath): on failure the temp
\* file is removed and the error returned; on success the temp file becomes
\* the final file and `written` is returned.
Rename(j) ==
    /\ jpc[j] = "Rename"
    /\ \/ /\ fs' = [fs EXCEPT ![Temp(jpath[j])] = NoFile]
          /\ Fail(j, "rename_error")
          /\ UNCHANGED downloads
       \/ /\ fs' = [fs EXCEPT ![Final(jpath[j])] = fs[Temp(jpath[j])],
                              ![Temp(jpath[j])] = NoFile]
          /\ jpc' = [jpc EXCEPT ![j] = "returned"]
          /\ jres' = [jres EXCEPT ![j] =
                        [err |-> "none", size |-> written[j], note |-> "downloaded"]]
          /\ downloads' = [downloads EXCEPT ![jpath[j]] = Min(@ + 1, 2)]
    /\ UNCHANGED <<jpath, existed, gets, written, ctxDone>>

\* The context of a request in flight is done: the caller cancels it, or
\* the deadline set by handleToolCall (context.WithTimeout) passes.
CtxDone(j) ==
    /\ jpc[j] \in {"Do", "Copy", "Rename"}
    /\ ~ctxDone[j]
    /\ ctxDone' = [ctxDone EXCEPT ![j] = TRUE]
    /\ UNCHANGED <<fs, jpc, jpath, existed, gets, written, jres, downloads>>

\* The caller has its result; the request is over.
Finish(j) ==
    /\ jpc[j] = "returned"
    /\ jpc' = [jpc EXCEPT ![j] = "idle"]
    /\ jpath' = [jpath EXCEPT ![j] = 0]
    /\ existed' = [existed EXCEPT ![j] = FALSE]
    /\ gets' = [gets EXCEPT ![j] = 0]
    /\ written' = [written EXCEPT ![j] = 0]
    /\ jres' = [jres EXCEPT ![j] = NoResult]
    /\ ctxDone' = [ctxDone EXCEPT ![j] = FALSE]
    /\ UNCHANGED <<fs, downloads>>

TransferNext ==
    \/ \E j \in Jobs, p \in Paths : StatAndStart(j, p) /\ UNCHANGED <<poolVars, resolveVars, deliverVars, restVars>>
    \/ \E j \in Jobs : Do(j) /\ UNCHANGED <<poolVars, resolveVars, deliverVars, restVars>>
    \/ \E j \in Jobs : Copy(j) /\ UNCHANGED <<poolVars, resolveVars, deliverVars, restVars>>
    \/ \E j \in Jobs : Rename(j) /\ UNCHANGED <<poolVars, resolveVars, deliverVars, restVars>>
    \/ \E j \in Jobs : CtxDone(j) /\ UNCHANGED <<poolVars, resolveVars, deliverVars, restVars>>
    \/ \E j \in Jobs : Finish(j) /\ UNCHANGED <<poolVars, resolveVars, deliverVars, restVars>>

(***************************************************************************)
(* Stream resolver                                                         *)
(***************************************************************************)
\* Longest list of video tracks in a collaborator response.
MaxTracks == 2

MediaTypes == {"audio", "video", "merged"}

\* Requested qualities (0 = not given).
QualityInputs == {0, 16, 64, 80, 90, 112}

\* Video tracks a manifest may list (id and height; the width, codec,
\* bandwidth and URL of a track play no part in the resolution): 480P,
\* 720P, 1080P+ and Dolby Vision.
VideoTracks ==
    { [ID |-> 32, Height |-> 480], [ID |-> 64, Height |-> 720],
      [ID |-> 112, Height |-> 1080], [ID |-> 126, Height |-> 2160] }

TrackLists == UNION {[1..n -> VideoTracks] : n \in 0..MaxTracks}

\* Qualities below the requested one that the platform may serve instead.
ApiQualities == {32, 74}

\* Values of the `quality` field of a GetVideoStream payload for a request
\* at quality qn: the platform serves the requested quality or a lower one.
Served(qn) == {qn} \cup {x \in ApiQualities : x < qn}

\* DASH == nil.
NoDASH == [Video |-> <<>>, present |-> FALSE]

NoStream == [Quality |-> 0, DURL |-> 0, DASH |-> NoDASH]

NoQuality == [Quality |-> 0, Height |-> 0, HasAudio |-> FALSE, Available |-> FALSE]

\* Payloads of a successful GetVideoStream call at quality qn: a muxed one
\* (fnval = 1) has a segment list, possibly empty; a split one (fnval = 16)
\* has a DASH manifest, or none, and then possibly a segment list instead
\* (VideoStreamData has both fields, each omitted when absent).
MuxedPayloads(qn) ==
    {[Quality |-> q, DURL |-> n, DASH |-> NoDASH] : q \in Served(qn), n \in {0, 1}}

SplitPayloads(qn) ==
    {[Quality |-> q, DURL |-> 0, DASH |-> [Video |-> v, present |-> TRUE]] :
        q \in Served(qn), v \in TrackLists}
    \cup {[Quality |-> q, DURL |-> n, DASH |-> NoDASH] :
             q \in Served(qn), n \in {0, 1}}

\* No request is being resolved.
NoRequest ==
    /\ rpc = "idle"
    /\ opts = [MediaType |-> "merged", Quality |-> 0]
    /\ calls = <<>>
    /\ via = "none"
    /\ streamData = NoStream
    /\ currentQuality = NoQuality
    /\ availableQualities = <<>>
    /\ manifestIds = {}
    /\ resultQuality = 0
    /\ resolveCtxDone = FALSE

\* One collaborator call in the log.
CallEntry(api, by, qn, fnval, found) ==
    [api |-> api, by |-> by, qn |-> qn, fnval |-> fnval, found |-> found]

\* getOptimalStream's probe order with 80 left out for high requests.
qualitiesWithout80(preferredQuality) ==
    IF preferredQuality > 0
    THEN <<preferredQuality, 64, 32, 16>>
    ELSE <<64, 32, 16>>

\* getOptimalStream: the qualities the muxed probes try, in order.
qualities(preferredQuality) ==
    IF preferredQuality > 0
    THEN IF preferredQuality >= 80
         THEN <<preferredQuality, 80, 64, 32, 16>>
         ELSE <<preferredQuality, 64, 32, 16>>
    ELSE <<64, 32, 16>>

\* The split fetch always made at the default 1080P.
targetQualityDefault(preferredQuality) == 80

\* getOptimalStream: targetQuality of the split fetch.
targetQuality(preferredQuality) ==
    IF preferredQuality = 0 THEN 80 ELSE preferredQuality

RECURSIVE MaxHeightFrom(_, _, _)
\* The loop `if video.Height > maxHeight { maxHeight = video.Height }`.
MaxHeightFrom(videos, i, maxHeight) ==
    IF i > Len(videos) THEN maxHeight
    ELSE MaxHeightFrom(videos, i + 1,
                       IF videos[i].Height > maxHeight THEN videos[i].Height
                       ELSE maxHeight)

\* The quality inferred from the first listed track only.
getQualityFromFirstVideo(videos) ==
    IF Len(videos) = 0 THEN 64
    ELSE LET maxHeight == videos[1].Height
         IN  IF maxHeight >= 2160 THEN 120
             ELSE IF maxHeight >= 1080 THEN 80
             ELSE IF maxHeight >= 720 THEN 64
             ELSE IF maxHeight >= 480 THEN 32
             ELSE 16

\* getQualityFromVideo.
getQualityFromVideo(videos) ==
    IF Len(videos) = 0 THEN 64
    ELSE LET maxHeight == MaxHeightFrom(videos, 1, 0)
         IN  IF maxHeight >= 2160 THEN 120
             ELSE IF maxHeight >= 1080 THEN 80
             ELSE IF maxHeight >= 720 THEN 64
             ELSE IF maxHeight >= 480 THEN 32
             ELSE 16

\* convertPlayUrlToStreamData: the tracks are copied and the quality is
\* inferred from their heights.
convertPlayUrlToStreamData(videos) ==
    [Quality |-> getQualityFromVideo(videos),
     DURL |-> 0,
     DASH |-> [Video |-> videos, present |-> TRUE]]

\* The QualityInfo getOptimalStream builds for a muxed hit.
MuxedQualityInfo(quality) ==
    [Quality |-> quality, Height |-> 0, HasAudio |-> TRUE, Available |-> TRUE]

\* The split QualityInfo taken from the last listed video track.
LastTrackQualityInfo(target, data) ==
    IF data.DASH.present /\ Len(data.DASH.Video) > 0
    THEN [Quality |-> data.DASH.Video[Len(data.DASH.Video)].ID,
          Height |-> data.DASH.Video[Len(data.DASH.Video)].Height,
          HasAudio |-> FALSE, Available |-> TRUE]
    ELSE [Quality |-> target, Height |-> 0, HasAudio |-> FALSE, Available |-> TRUE]

\* The QualityInfo getOptimalStream builds for the split representation:
\* actualQuality is the id of the first listed video track when there is
\* one, else the target quality.
SplitQualityInfo(target, data) ==
    IF data.DASH.present /\ Len(data.DASH.Video) > 0
    THEN [Quality |-> data.DASH.Video[1].ID,
          Height |-> data.DASH.Video[1].Height,
          HasAudio |-> FALSE, Available |-> TRUE]
    ELSE [Quality |-> target, Height |-> 0, HasAudio |-> FALSE, Available |-> TRUE]

\* The QualityInfo built from a GetPlayUrl conversion (fallbackToPlayUrl and
\* the audio / video branch of DownloadMedia).
PlayUrlQualityInfo(data) ==
    [Quality |-> data.Quality, Height |-> 0, HasAudio |-> FALSE, Available |-> TRUE]

\* getAvailableQualities, the qualityMap: the last listed track of an id
\* gives the entry of that id; a muxed hit at 64, 32 or 16 sets HasAudio or
\* adds an entry.
qualityMapEntry(videoStreams, mp4, q) ==
    LET idx == {i \in DOMAIN videoStreams : videoStreams[i].ID = q}
        last == CHOOSE i \in idx : \A k \in idx : k <= i
    IN  IF idx # {}
        THEN [Quality |-> q, Height |-> videoStreams[last].Height,
              HasAudio |-> q \in mp4, Available |-> TRUE]
        ELSE [Quality |-> q, Height |-> 0, HasAudio |-> TRUE, Available |-> TRUE]

qualityMapKeys(videoStreams, mp4) ==
    {videoStreams[i].ID : i \in DOMAIN videoStreams} \cup mp4

\* getAvailableQualities, the order of the output.
sortOrder == <<127, 125, 120, 116, 112, 80, 74, 64, 32, 16>>

\* getAvailableQualities, the fallback list.
basicQualities == <<80, 64, 32, 16>>

\* getAvailableQualities: dashOK says whether the split probe at quality 80
\* succeeded with a manifest; mp4 is the set of qualities among 64, 32, 16
\* whose muxed probe returned segments.
getAvailableQualities(dashOK, videoStreams, mp4) ==
    IF dashOK
    THEN LET keep(q) == q \in qualityMapKeys(videoStreams, mp4)
             kept == SelectSeq(sortOrder, keep)
         IN  [i \in DOMAIN kept |-> qualityMapEntry(videoStreams, mp4, kept[i])]
    ELSE [i \in DOMAIN basicQualities |->
            [Quality |-> basicQualities[i], Height |-> 0,
             HasAudio |-> basicQualities[i] <= 64, Available |-> TRUE]]

\* The collaborator calls getAvailableQualities makes.
catalogCalls(dashOK, mp4) ==
    <<CallEntry("GetVideoStream", "catalog", 80, 16, dashOK)>>
    \o (IF dashOK
        THEN [i \in 1..3 |->
                CallEntry("GetVideoStream", "catalog", <<64, 32, 16>>[i], 1,
                          <<64, 32, 16>>[i] \in mp4)]
        ELSE <<>>)

\* DownloadMedia is called: GetVideoInfo fails (transport error, non-zero
\* code, no CID) or gives the title and CID.
DownloadMedia(mediaType, quality) ==
    /\ rpc = "idle"
    /\ opts' = [MediaType |-> mediaType, Quality |-> quality]
    /\ calls' = <<>>
    /\ via' = "none"
    /\ streamData' = NoStream
    /\ currentQuality' = NoQuality
    /\ availableQualities' = <<>>
    /\ manifestIds' = {}
    /\ resultQuality' = 0
    /\ resolveCtxDone' = FALSE
    /\ \E ok \in BOOLEAN :
          rpc' = IF ~ok THEN "failed"
                 ELSE IF mediaType = "merged" THEN "Catalog" ELSE "PlayUrl"

\* The calls getAvailableQualities has made when its k-th call is answered
\* with code 0 and no data (Data == nil), which it dereferences.
catalogCallsUntilNil(k, mp4) ==
    SubSeq(catalogCalls(TRUE, mp4), 1, k - 1)
    \o <<CallEntry("GetVideoStream", "catalog", <<80, 64, 32, 16>>[k],
                   IF k = 1 THEN 16 ELSE 1, FALSE)>>

\* getOptimalStream, step 1: getAvailableQualities. It returns its list, or
\* panics on a response without data.
Catalog ==
    /\ rpc = "Catalog"
    /\ \/ /\ \E dashOK \in BOOLEAN, videoStreams \in TrackLists,
                mp4 \in SUBSET {64, 32, 16} :
                /\ (~dashOK => videoStreams = <<>> /\ mp4 = {})
                /\ availableQualities' =
                      getAvailableQualities(dashOK, videoStreams, mp4)
                /\ manifestIds' = {videoStreams[i].ID : i \in DOMAIN videoStreams}
                /\ calls' = calls \o catalogCalls(dashOK, mp4)
          /\ rpc' = "Muxed"
       \/ /\ \E k \in 1..4, mp4 \in SUBSET {64, 32, 16} :
                calls' = calls \o catalogCallsUntilNil(k, mp4)
          /\ rpc' = "panicked"
          /\ UNCHANGED <<availableQualities, manifestIds>>
    /\ UNCHANGED <<opts, via, streamData, currentQuality, resultQuality,
                   resolveCtxDone>>

\* The muxed probes made so far by getOptimalStream's loop.
Probed == SelectSeq(calls, LAMBDA e : e.by = "select")

\* getOptimalStream, step 2, one turn of the loop: GetVideoStream(videoID,
\* cid, quality, 1, "html5"). An error (the client turns a non-zero code
\* into one) or an empty segment list moves on to the next quality; segments
\* end the resolution; a response without data (Data == nil) is
\* dereferenced and panics.
MuxedProbe ==
    /\ rpc = "Muxed"
    /\ LET order == qualities(opts.Quality)
           i == Len(Probed) + 1
       IN  IF i > Len(order)
           THEN /\ rpc' = "Split"
                /\ UNCHANGED <<calls, via, streamData, currentQuality, resultQuality>>
           ELSE \/ /\ calls' = Append(calls,
                        CallEntry("GetVideoStream", "select", order[i], 1, FALSE))
                   /\ UNCHANGED <<rpc, via, streamData, currentQuality, resultQuality>>
                \/ /\ calls' = Append(calls,
                        CallEntry("GetVideoStream", "select", order[i], 1, FALSE))
                   /\ rpc' = "panicked"
                   /\ UNCHANGED <<via, streamData, currentQuality, resultQuality>>
                \/ \E data \in MuxedPayloads(order[i]) :
                     /\ calls' = Append(calls,
                          CallEntry("GetVideoStream", "select", order[i], 1,
                                    data.DURL > 0))
                     /\ IF data.DURL > 0
                        THEN /\ rpc' = "done"
                             /\ via' = "muxed"
                             /\ streamData' = data
                             /\ currentQuality' = MuxedQualityInfo(order[i])
                             /\ resultQuality' = data.Quality
                        ELSE UNCHANGED <<rpc, via, streamData, currentQuality,
                                         resultQuality>>
    /\ UNCHANGED <<opts, availableQualities, manifestIds, resolveCtxDone>>

\* The split fetch returning its error instead of falling back.
SplitFetchSurfacesError ==
    /\ rpc = "Split"
    /\ \/ /\ calls' = Append(calls,
               CallEntry("GetVideoStream", "split",
                         targetQuality(opts.Quality), 16, FALSE))
          /\ rpc' = "failed"
          /\ UNCHANGED <<via, streamData, currentQuality, resultQuality>>
       \/ /\ calls' = Append(calls,
               CallEntry("GetVideoStream", "split",
                         targetQuality(opts.Quality), 16, FALSE))
          /\ rpc' = "panicked"
          /\ UNCHANGED <<via, streamData, currentQuality, resultQuality>>
       \/ \E data \in SplitPayloads(targetQuality(opts.Quality)) :
            /\ calls' = Append(calls,
                 CallEntry("GetVideoStream", "split",
                           targetQuality(opts.Quality), 16, TRUE))
            /\ rpc' = "done"
            /\ via' = "split"
            /\ streamData' = data
            /\ currentQuality' = SplitQualityInfo(targetQuality(opts.Quality), data)
            /\ resultQuality' = data.Quality
    /\ UNCHANGED <<opts, availableQualities, manifestIds, resolveCtxDone>>

\* getOptimalStream, step 3: GetVideoStream(videoID, cid, targetQuality, 16,
\* "html5"); an error falls back to GetPlayUrl, a response without data
\* panics.
SplitFetch ==
    /\ rpc = "Split"
    /\ \/ /\ calls' = Append(calls,
               CallEntry("GetVideoStream", "split",
                         targetQuality(opts.Quality), 16, FALSE))
          /\ rpc' = "Legacy"
          /\ UNCHANGED <<via, streamData, currentQuality, resultQuality>>
       \/ /\ calls' = Append(calls,
               CallEntry("GetVideoStream", "split",
                         targetQuality(opts.Quality), 16, FALSE))
          /\ rpc' = "panicked"
          /\ UNCHANGED <<via, streamData, currentQuality, resultQuality>>
       \/ \E data \in SplitPayloads(targetQuality(opts.Quality)) :
            /\ calls' = Append(calls,
                 CallEntry("GetVideoStream", "split",
                           targetQuality(opts.Quality), 16, TRUE))
            /\ rpc' = "done"
            /\ via' = "split"
            /\ streamData' = data
            /\ currentQuality' = SplitQualityInfo(targetQuality(opts.Quality), data)
            /\ resultQuality' = data.Quality
    /\ UNCHANGED <<opts, availableQualities, manifestIds, resolveCtxDone>>

\* fallbackToPlayUrl: GetPlayUrl fails, or its tracks are converted.
fallbackToPlayUrl ==
    /\ rpc = "Legacy"
    /\ \/ /\ calls' = Append(calls, CallEntry("GetPlayUrl", "legacy", 0, 16, FALSE))
          /\ rpc' = "failed"
          /\ UNCHANGED <<via, streamData, currentQuality, resultQuality>>
       \/ \E videos \in TrackLists :
            /\ calls' = Append(calls, CallEntry("GetPlayUrl", "legacy", 0, 16, TRUE))
            /\ rpc' = "done"
            /\ via' = "legacy"
            /\ streamData' = convertPlayUrlToStreamData(videos)
            /\ currentQuality' = PlayUrlQualityInfo(convertPlayUrlToStreamData(videos))
            /\ resultQuality' = convertPlayUrlToStreamData(videos).Quality
    /\ UNCHANGED <<opts, availableQualities, manifestIds, resolveCtxDone>>

\* DownloadMedia for audio or video: GetPlayUrl, the conversion, then
\* getAvailableQualities for the catalog (its error is ignored).
PlayUrl ==
    /\ rpc = "PlayUrl"
    /\ \/ /\ calls' = Append(calls, CallEntry("GetPlayUrl", "playurl", 0, 16, FALSE))
          /\ rpc' = "failed"
          /\ UNCHANGED <<via, streamData, currentQuality, resultQuality,
                         availableQualities, manifestIds>>
       \/ \E videos \in TrackLists, dashOK \in BOOLEAN, videoStreams \in TrackLists,
             mp4 \in SUBSET {64, 32, 16} :
            /\ (~dashOK => videoStreams = <<>> /\ mp4 = {})
            /\ calls' = Append(calls, CallEntry("GetPlayUrl", "playurl", 0, 16, TRUE))
                          \o catalogCalls(dashOK, mp4)
            /\ rpc' = "done"
            /\ via' = "playurl"
            /\ streamData' = convertPlayUrlToStreamData(videos)
            /\ currentQuality' = PlayUrlQualityInfo(convertPlayUrlToStreamData(videos))
            /\ resultQuality' = convertPlayUrlToStreamData(videos).Quality
            /\ availableQualities' = getAvailableQualities(dashOK, videoStreams, mp4)
            /\ manifestIds' = {videoStreams[i].ID : i \in DOMAIN videoStreams}
       \/ \E k \in 1..4, mp4 \in SUBSET {64, 32, 16} :
            /\ calls' = Append(calls, CallEntry("GetPlayUrl", "playurl", 0, 16, TRUE))
                          \o catalogCallsUntilNil(k, mp4)
            /\ rpc' = "panicked"
            /\ UNCHANGED <<via, streamData, currentQuality, resultQuality,
                           availableQualities, manifestIds>>
    /\ UNCHANGED <<opts, resolveCtxDone>>

\* The steps of DownloadMedia that wait for a collaborator call.
Resolving == {"Catalog", "Muxed", "Split", "Legacy", "PlayUrl"}

\* The ctx handed to DownloadMedia is done (the tool call's five-minute
\* timeout fires, or the caller cancels) while the resolution is under way.
\* GetVideoInfo, GetVideoStream and GetPlayUrl take no ctx and build their
\* requests with http.NewRequest, so nothing in the resolution reads it.
CtxDoneResolving ==
    /\ rpc \in Resolving
    /\ ~resolveCtxDone
    /\ resolveCtxDone' = TRUE
    /\ UNCHANGED <<rpc, opts, calls, via, streamData, currentQuality,
                   availableQualities, manifestIds, resultQuality>>

\* The resolution is over (its result or its error has been handed on).
Resolved ==
    /\ rpc \in {"done", "failed", "panicked"}
    /\ rpc' = "idle"
    /\ opts' = [MediaType |-> "merged", Quality |-> 0]
    /\ calls' = <<>>
    /\ via' = "none"
    /\ streamData' = NoStream
    /\ currentQuality' = NoQuality
    /\ availableQualities' = <<>>
    /\ manifestIds' = {}
    /\ resultQuality' = 0
    /\ resolveCtxDone' = FALSE

ResolveNext ==
    \/ \E m \in MediaTypes, q \in QualityInputs :
          DownloadMedia(m, q) /\ UNCHANGED <<poolVars, transferVars, deliverVars, restVars>>
    \/ Catalog /\ UNCHANGED <<poolVars, transferVars, deliverVars, restVars>>
    \/ MuxedProbe /\ UNCHANGED <<poolVars, transferVars, deliverVars, restVars>>
    \/ SplitFetch /\ UNCHANGED <<poolVars, transferVars, deliverVars, restVars>>
    \/ fallbackToPlayUrl /\ UNCHANGED <<poolVars, transferVars, deliverVars, restVars>>
    \/ PlayUrl /\ UNCHANGED <<poolVars, transferVars, deliverVars, restVars>>
    \/ CtxDoneResolving /\ UNCHANGED <<poolVars, transferVars, deliverVars, restVars>>
    \/ Resolved /\ UNCHANGED <<poolVars, transferVars, deliverVars, restVars>>

(***************************************************************************)
(* Rate limiter                                                            *)
(***************************************************************************)
\* The minimum spacing each handler passes with its key: 5 s for
\* like_video, 10 s for reply_comment.
minInterval(key) == IF key = "like_video_a_BV1" THEN 5 ELSE 10

\* A handler calls checkRateLimit(operation, minInterval) and reaches
\* rateMutex.Lock().
checkRateLimit(c, key) ==
    /\ rlpc[c] = "idle"
    /\ rlpc' = [rlpc EXCEPT ![c] = "Lock"]
    /\ operation' = [operation EXCEPT ![c] = key]
    /\ rlres' = [rlres EXCEPT ![c] = "none"]
    /\ UNCHANGED <<rateLimiter, rateMutex, clock, now, lastTime, admitted>>

\* The function body entered without taking rateMutex.
LockNoMutex(c) ==
    /\ rlpc[c] = "Lock"
    /\ rateMutex' = rateMutex
    /\ now' = [now EXCEPT ![c] = clock]
    /\ lastTime' = [lastTime EXCEPT ![c] = rateLimiter[operation[c]]]
    /\ rlpc' = [rlpc EXCEPT ![c] = "check"]
    /\ UNCHANGED <<rateLimiter, clock, operation, admitted, rlres>>

\* rateMutex.Lock() succeeds; `now := time.Now()` and the map lookup
\* `lastTime, exists := rateLimiter[operation]`.
Lock(c) ==
    /\ rlpc[c] = "Lock"
    /\ rateMutex = Unlocked
    /\ rateMutex' = c
    /\ now' = [now EXCEPT ![c] = clock]
    /\ lastTime' = [lastTime EXCEPT ![c] = rateLimiter[operation[c]]]
    /\ rlpc' = [rlpc EXCEPT ![c] = "check"]
    /\ UNCHANGED <<rateLimiter, clock, operation, admitted, rlres>>

\* `if exists && now.Sub(lastTime) < minInterval { return error }`, else
\* `rateLimiter[operation] = now; return nil`; the deferred Unlock runs on
\* either return, and the call's locals are gone.
Check(c) ==
    /\ rlpc[c] = "check"
    /\ IF lastTime[c] # NoTime /\ now[c] - lastTime[c] < minInterval(operation[c])
       THEN /\ rlres' = [rlres EXCEPT ![c] = "rejected"]
            /\ UNCHANGED <<rateLimiter, admitted>>
       ELSE /\ rlres' = [rlres EXCEPT ![c] = "admitted"]
            /\ rateLimiter' = [rateLimiter EXCEPT ![operation[c]] = now[c]]
            /\ admitted' = [admitted EXCEPT ![operation[c]] = Append(@, now[c])]
    /\ rateMutex' = IF rateMutex = c THEN Unlocked ELSE rateMutex
    /\ rlpc' = [rlpc EXCEPT ![c] = "idle"]
    /\ now' = [now EXCEPT ![c] = 0]
    /\ lastTime' = [lastTime EXCEPT ![c] = NoTime]
    /\ UNCHANGED <<clock, operation>>

\* Time passes.
ClockTick ==
    /\ clock + ClockStep <= MaxClock
    /\ clock' = clock + ClockStep
    /\ UNCHANGED <<rateLimiter, rateMutex, rlpc, operation, now, lastTime,
                   admitted, rlres>>

RateNext ==
    \/ ClockTick /\ UNCHANGED <<poolVars, transferVars, resolveVars, deliverVars, accountVars, destinations, sharedVars, closed, mergeVars>>
    \/ \E c \in RateCallers, key \in Keys :
          checkRateLimit(c, key) /\ UNCHANGED <<poolVars, transferVars, resolveVars, deliverVars, accountVars, destinations, sharedVars, closed, mergeVars>>
    \/ \E c \in RateCallers : Lock(c) /\ UNCHANGED <<poolVars, transferVars, resolveVars, deliverVars, accountVars, destinations, sharedVars, closed, mergeVars>>
    \/ \E c \in RateCallers : Check(c) /\ UNCHANGED <<poolVars, transferVars, resolveVars, deliverVars, accountVars, destinations, sharedVars, closed, mergeVars>>

(***************************************************************************)
(* Track selection and artifacts (DownloadMedia after the resolution)      *)
(***************************************************************************)
\* Longest list of audio tracks in a manifest.
MaxAudio == 2

\* Requested qualities of the download requests (0 = not given).
DownloadQualities == {0, 32, 64}

\* Video tracks of the manifests handed to the download step.
DashVideo ==
    { [ID |-> 16, Height |-> 360], [ID |-> 32, Height |-> 480],
      [ID |-> 64, Height |-> 720] }

\* Audio tracks: two of them tie for the highest bandwidth.
DashAudio ==
    { [Bandwidth |-> 64000, BaseURL |-> "a1"],
      [Bandwidth |-> 128000, BaseURL |-> "a2"],
      [Bandwidth |-> 128000, BaseURL |-> "a3"] }

\* Qualities at which a video may have a muxed representation.
MuxedQualities == {64, 32}

VideoLists == UNION {[1..n -> DashVideo] : n \in 0..MaxTracks}

AudioLists == UNION {[1..n -> DashAudio] : n \in 0..MaxAudio}

\* The three paths DownloadMedia may write (AudioPath, VideoPath,
\* MergedPath).
Artifacts == {"audio", "video", "merged"}

\* No track selected (the empty URL).
NoTrack == [ID |-> 0, Height |-> 0]

NoAudio == [Bandwidth |-> 0, BaseURL |-> ""]

\* DASH == nil with the audio list.
NilDASH == [Video |-> <<>>, Audio |-> <<>>, present |-> FALSE]

\* A nil *MediaDownloadResult.
NilResult ==
    [Quality |-> 0, CurrentQuality |-> NoQuality, AudioURL |-> NoAudio,
     VideoURL |-> NoTrack, VideoFrom |-> "", Paths |-> {},
     MergeRequired |-> FALSE, MergeCommand |-> FALSE, Notes |-> "nil"]

\* The result DownloadMedia creates before the download (lines 277-286).
NewResult(quality, current) ==
    [Quality |-> quality, CurrentQuality |-> current, AudioURL |-> NoAudio, VideoURL |-> NoTrack,
     VideoFrom |-> "", Paths |-> {},
     MergeRequired |-> FALSE, MergeCommand |-> FALSE, Notes |-> ""]

\* No download request is being served.
NoDownload ==
    /\ dpc = "idle"
    /\ dopts = [MediaType |-> "merged", Quality |-> 0]
    /\ dstream = [Quality |-> 0, DURL |-> 0, DASH |-> NilDASH]
    /\ dresult = NilResult
    /\ statted = {}
    /\ transfers = <<>>
    /\ muxedAt = {}
    /\ derr = ""

RECURSIVE BestAudioFrom(_, _, _)
\* The loop `if audio.Bandwidth > bestAudio.Bandwidth { bestAudio = audio }`.
BestAudioFrom(audio, i, bestAudio) ==
    IF i > Len(audio) THEN bestAudio
    ELSE BestAudioFrom(audio, i + 1,
                       IF audio[i].Bandwidth > bestAudio.Bandwidth
                       THEN audio[i] ELSE bestAudio)

\* The last listed audio track.
lastAudio(audio) == audio[Len(audio)]

\* downloadAudioOnly / downloadAndMerge: bestAudio, for a non-empty list.
bestAudio(audio) == BestAudioFrom(audio, 1, audio[1])

\* downloadVideoOnly / downloadAndMerge: bestVideo, for a non-empty list:
\* the first track whose ID equals result.Quality, else the first track.
bestVideo(video, quality) ==
    LET idx == {i \in DOMAIN video : video[i].ID = quality}
    IN  IF idx # {}
        THEN video[CHOOSE i \in idx : \A k \in idx : i <= k]
        ELSE video[1]

\* convertPlayUrlToStreamData with the audio tracks copied as well.
ConvertedStreams ==
    {[Quality |-> getQualityFromVideo(v), DURL |-> 0,
      DASH |-> [Video |-> v, Audio |-> a, present |-> TRUE]] :
        v \in VideoLists, a \in AudioLists}

\* The first quality of getOptimalStream's probe order at which the
\* platform has a muxed representation (mp4 is the set of those qualities).
FirstMuxed(q, mp4) ==
    LET order == qualities(q)
        hits == {i \in DOMAIN order : order[i] \in mp4}
    IN  order[CHOOSE i \in hits : \A k \in hits : i <= k]

\* The StreamResults getOptimalStream may return for requested quality q:
\* the payload of the first successful muxed probe when there is one, else
\* the payload of the split fetch (with a manifest, or without one and then
\* with or without a segment list) or the GetPlayUrl conversion.
OptimalResults(q, mp4) ==
    IF mp4 \cap Range(qualities(q)) # {}
    THEN {[StreamData |-> [Quality |-> served, DURL |-> 1, DASH |-> NilDASH],
           CurrentQuality |-> MuxedQualityInfo(FirstMuxed(q, mp4))] :
             served \in Served(FirstMuxed(q, mp4))}
    ELSE {[StreamData |-> data,
           CurrentQuality |-> SplitQualityInfo(targetQuality(q), data)] :
             data \in
               {[Quality |-> served, DURL |-> 0,
                 DASH |-> [Video |-> v, Audio |-> a, present |-> TRUE]] :
                   served \in Served(targetQuality(q)),
                   v \in VideoLists, a \in AudioLists}
               \cup {[Quality |-> served, DURL |-> n, DASH |-> NilDASH] :
                       served \in Served(targetQuality(q)), n \in {0, 1}}}
         \cup {[StreamData |-> data, CurrentQuality |-> PlayUrlQualityInfo(data)] :
                 data \in ConvertedStreams}

\* The StreamData and CurrentQuality of an audio or video request.
PlayUrlResults ==
    {[StreamData |-> data, CurrentQuality |-> PlayUrlQualityInfo(data)] :
        data \in ConvertedStreams}

\* DownloadMedia up to the dispatch on the media type: the resolution fails
\* (GetVideoInfo, GetPlayUrl or getOptimalStream returns an error, or a
\* response without data panics) or gives the stream data, and the result is
\* created with the stream's quality.
\* mp4 is the set of qualities at which the platform has a muxed
\* representation of the video.
ResolveStream(mediaType, quality, mp4) ==
    /\ dpc = "idle"
    /\ dopts' = [MediaType |-> mediaType, Quality |-> quality]
    /\ muxedAt' = mp4
    /\ statted' = {}
    /\ transfers' = <<>>
    /\ \/ /\ dpc' = "failed"
          /\ derr' = "resolution failed"
          /\ UNCHANGED <<dstream, dresult>>
       \/ \E r \in (IF mediaType = "merged" THEN OptimalResults(quality, mp4)
                    ELSE PlayUrlResults) :
            /\ dpc' = "resolved"
            /\ dstream' = r.StreamData
            /\ dresult' = NewResult(r.StreamData.Quality, r.CurrentQuality)
            /\ derr' = ""

\* A download function returns the untouched result and no error.
ReturnUntouched(err) ==
    /\ dpc' = "done"
    /\ dresult' = dresult
    /\ derr' = ""

\* A download function returns (nil, err).
ReturnError(err) ==
    /\ dpc' = "failed"
    /\ dresult' = NilResult
    /\ derr' = err

\* A download function returns (result, nil).
ReturnResult(res) ==
    /\ dpc' = "done"
    /\ dresult' = res
    /\ derr' = ""

\* downloadAudioOnly.
downloadAudioOnly ==
    /\ dpc = "resolved"
    /\ dopts.MediaType = "audio"
    /\ IF ~dstream.DASH.present \/ Len(dstream.DASH.Audio) = 0
       THEN /\ ReturnError("no audio stream")
            /\ UNCHANGED <<statted, transfers>>
       ELSE LET res == [dresult EXCEPT !.Paths = {"audio"},
                                       !.AudioURL = bestAudio(dstream.DASH.Audio)]
            IN  \/ /\ statted' = {"audio"}
                   /\ ReturnResult([res EXCEPT !.Notes = "exists, skipped"])
                   /\ UNCHANGED transfers
                \/ /\ transfers' = <<[kind |-> "audio", ok |-> TRUE]>>
                   /\ ReturnResult([res EXCEPT !.Notes = "audio downloaded"])
                   /\ UNCHANGED statted
                \/ /\ transfers' = <<[kind |-> "audio", ok |-> FALSE]>>
                   /\ ReturnError("audio download failed")
                   /\ UNCHANGED statted
    /\ UNCHANGED <<dopts, dstream, muxedAt>>

\* downloadVideoOnly.
downloadVideoOnly ==
    /\ dpc = "resolved"
    /\ dopts.MediaType = "video"
    /\ IF ~dstream.DASH.present \/ Len(dstream.DASH.Video) = 0
       THEN /\ ReturnError("no video stream")
            /\ UNCHANGED <<statted, transfers>>
       ELSE LET res == [dresult EXCEPT
                          !.Paths = {"video"},
                          !.VideoFrom = "dash",
                          !.VideoURL = bestVideo(dstream.DASH.Video, dresult.Quality)]
            IN  \/ /\ statted' = {"video"}
                   /\ ReturnResult([res EXCEPT !.Notes = "exists, skipped"])
                   /\ UNCHANGED transfers
                \/ /\ transfers' = <<[kind |-> "video", ok |-> TRUE]>>
                   /\ ReturnResult([res EXCEPT
                          !.Notes = "video downloaded"])
                   /\ UNCHANGED statted
                \/ /\ transfers' = <<[kind |-> "video", ok |-> FALSE]>>
                   /\ ReturnError("video download failed")
                   /\ UNCHANGED statted
    /\ UNCHANGED <<dopts, dstream, muxedAt>>

\* downloadAndMerge: both tracks are selected, then the merged, the audio
\* and the video path are looked up and the missing tracks transferred.
downloadAndMerge ==
    IF Len(dstream.DASH.Audio) = 0 \/ Len(dstream.DASH.Video) = 0
    THEN /\ ReturnError("missing audio or video stream")
         /\ UNCHANGED <<statted, transfers>>
    ELSE LET res == [dresult EXCEPT
                       !.Paths = {"audio", "video", "merged"},
                       !.AudioURL = bestAudio(dstream.DASH.Audio),
                       !.VideoFrom = "dash",
                       !.VideoURL = bestVideo(dstream.DASH.Video, dresult.Quality),
                       !.MergeRequired = TRUE]
         IN  \/ /\ statted' = {"merged"}
                /\ ReturnResult([res EXCEPT !.Notes = "merged exists, skipped"])
                /\ UNCHANGED transfers
             \/ \E audioExists \in BOOLEAN :
                  \/ /\ ~audioExists
                     /\ statted' = {}
                     /\ transfers' = <<[kind |-> "audio", ok |-> FALSE]>>
                     /\ ReturnError("audio download failed")
                  \/ \E videoExists \in BOOLEAN :
                       LET audioT == IF audioExists THEN <<>>
                                     ELSE <<[kind |-> "audio", ok |-> TRUE]>>
                           st == (IF audioExists THEN {"audio"} ELSE {})
                                 \cup (IF videoExists THEN {"video"} ELSE {})
                       IN  \/ /\ ~videoExists
                              /\ statted' = st
                              /\ transfers' =
                                   audioT \o <<[kind |-> "video", ok |-> FALSE]>>
                              /\ ReturnError("video download failed")
                           \/ /\ statted' = st
                              /\ transfers' = audioT \o
                                   (IF videoExists THEN <<>>
                                    ELSE <<[kind |-> "video", ok |-> TRUE]>>)
                              /\ ReturnResult([res EXCEPT
                                    !.MergeCommand = TRUE,
                                    !.Notes = "use ffmpeg to merge"])

\* downloadMP4: the first segment of the muxed representation goes to the
\* merged path.
downloadMP4 ==
    IF dstream.DURL = 0
    THEN /\ ReturnError("no MP4 stream")
         /\ UNCHANGED <<statted, transfers>>
    ELSE LET res == [dresult EXCEPT !.Paths = {"merged"}]
         IN  \/ /\ statted' = {"merged"}
                /\ ReturnResult([res EXCEPT !.Notes = "exists, skipped"])
                /\ UNCHANGED transfers
             \/ /\ transfers' = <<[kind |-> "merged", ok |-> TRUE]>>
                /\ ReturnResult([res EXCEPT !.VideoFrom = "durl",
                                            !.Notes = "MP4 downloaded"])
                /\ UNCHANGED statted
             \/ /\ transfers' = <<[kind |-> "merged", ok |-> FALSE]>>
                /\ ReturnError("MP4 download failed")
                /\ UNCHANGED statted

\* downloadMerged treating every stream as a split one.
downloadMergedSplitOnly ==
    /\ dpc = "resolved"
    /\ dopts.MediaType = "merged"
    /\ downloadAndMerge
    /\ UNCHANGED <<dopts, dstream, muxedAt>>

\* downloadMerged: a manifest (DASH != nil) is split into two downloads, a
\* segment list is downloaded as one file.
downloadMerged ==
    /\ dpc = "resolved"
    /\ dopts.MediaType = "merged"
    /\ IF dstream.DASH.present THEN downloadAndMerge
       ELSE IF dstream.DURL > 0 THEN downloadMP4
       ELSE /\ ReturnError("no video stream")
            /\ UNCHANGED <<statted, transfers>>
    /\ UNCHANGED <<dopts, dstream, muxedAt>>

\* DownloadMedia has returned; the next request may come.
DownloadReturned ==
    /\ dpc \in {"done", "failed"}
    /\ dpc' = "idle"
    /\ dopts' = [MediaType |-> "merged", Quality |-> 0]
    /\ dstream' = [Quality |-> 0, DURL |-> 0, DASH |-> NilDASH]
    /\ dresult' = NilResult
    /\ statted' = {}
    /\ transfers' = <<>>
    /\ muxedAt' = {}
    /\ derr' = ""

DeliverNext ==
    \/ \E m \in MediaTypes, q \in DownloadQualities, mp4 \in SUBSET MuxedQualities :
          ResolveStream(m, q, mp4) /\ UNCHANGED <<poolVars, transferVars, resolveVars, restVars>>
    \/ downloadAudioOnly /\ UNCHANGED <<poolVars, transferVars, resolveVars, restVars>>
    \/ downloadVideoOnly /\ UNCHANGED <<poolVars, transferVars, resolveVars, restVars>>
    \/ downloadMerged /\ UNCHANGED <<poolVars, transferVars, resolveVars, restVars>>
    \/ DownloadReturned /\ UNCHANGED <<poolVars, transferVars, resolveVars, restVars>>

DeliverInit == NewBrowserPool /\ EmptyOutputDir /\ NoRequest /\ NoDownload /\ RestInit

SpecDeliver == DeliverInit /\ [][DeliverNext]_vars

(***************************************************************************)
(* The height-to-quality mapping on its own                                *)
(***************************************************************************)
\* Heights of the video tracks GetPlayUrl may list, around every threshold
\* of the mapping.
Heights == {0, 360, 479, 480, 719, 720, 1079, 1080, 2159, 2160, 4320}

\* GetPlayUrl lists tracks with their own ids; the mapping reads heights.
HeightTracks == {[ID |-> 0, Height |-> h] : h \in Heights}

HeightLists == UNION {[1..n -> HeightTracks] : n \in 0..MaxTracks}

\* DownloadMedia for audio or video with a GetPlayUrl answer listing
\* `videos`: the conversion, the quality information and the result's
\* quality (the catalog is left out here).
ConvertPlayUrl(videos) ==
    /\ rpc = "idle"
    /\ rpc' = "done"
    /\ via' = "playurl"
    /\ \E mediaType \in {"audio", "video"} :
          opts' = [MediaType |-> mediaType, Quality |-> 0]
    /\ streamData' = convertPlayUrlToStreamData(videos)
    /\ currentQuality' = PlayUrlQualityInfo(convertPlayUrlToStreamData(videos))
    /\ resultQuality' = convertPlayUrlToStreamData(videos).Quality
    /\ UNCHANGED <<calls, availableQualities, manifestIds, resolveCtxDone>>

ConvertNext ==
    \/ \E videos \in HeightLists :
          ConvertPlayUrl(videos) /\ UNCHANGED <<poolVars, transferVars, deliverVars, restVars>>
    \/ Resolved /\ UNCHANGED <<poolVars, transferVars, deliverVars, restVars>>

ConvertInit == NewBrowserPool /\ EmptyOutputDir /\ NoRequest /\ NoDownload /\ RestInit

SpecConvert == ConvertInit /\ [][ConvertNext]_vars

(***************************************************************************)
(* Destination paths                                                       *)
(***************************************************************************)
\* Requests compared with each other.
MaxNamed == 2

\* `if len(filename) > 100 { filename = filename[:100] }`.
MaxFilename == 100

VideoIDs == {"BV1", "BV2"}

\* The part of the video a request asks for (opts.CID, or the first page).
CIDs == {1, 2}

\* result.Quality of a request (the track it ends up with).
ResultQualities == {32, 64, 90}

\* videoInfo.Data.Title of the two videos, as strings of characters.
Title(videoID) == IF videoID = "BV1" THEN <<"a", "/">> ELSE <<".", "a", "_">>

UnsafeChars == {"<", ">", ":", "/", "|", "?", "*"}

RECURSIVE TrimDots(_)
\* strings.Trim(filename, ".").
TrimDots(str) ==
    IF str = <<>> THEN <<>>
    ELSE IF Head(str) = "." THEN TrimDots(Tail(str))
    ELSE IF str[Len(str)] = "." THEN TrimDots(SubSeq(str, 1, Len(str) - 1))
    ELSE str

\* sanitizeFilename: unsafe characters become "_", dots at either end are
\* trimmed, the name is cut at 100 characters, and an empty name becomes
\* "bilibili_media".
sanitizeFilename(filename) ==
    LET replaced == [i \in DOMAIN filename |->
                        IF filename[i] \in UnsafeChars THEN "_" ELSE filename[i]]
        trimmed == TrimDots(replaced)
        cut == SubSeq(trimmed, 1, Min(Len(trimmed), MaxFilename))
    IN  IF cut = <<>> THEN <<"bilibili_media">> ELSE cut

\* getQualityDescription: the label of a quality code, "Q<code>" for a code
\* outside the table.
getQualityDescription(quality) ==
    IF quality = 16 THEN <<"360P">>
    ELSE IF quality = 32 THEN <<"480P">>
    ELSE IF quality = 64 THEN <<"720P">>
    ELSE IF quality = 80 THEN <<"1080P">>
    ELSE <<"Q", quality>>

\* fmt.Sprintf("%s_%s_audio.m4a", cleanTitle, result.VideoID).
audioFilename(cleanTitle, videoID) ==
    cleanTitle \o <<"_", videoID, "_audio.m4a">>

\* fmt.Sprintf("%s_%s_video_%s.m4v", cleanTitle, result.VideoID,
\* result.QualityDesc).
videoFilename(cleanTitle, videoID, desc) ==
    cleanTitle \o <<"_", videoID, "_video_">> \o desc \o <<".m4v">>

\* fmt.Sprintf("%s_%s_%s.mp4", cleanTitle, result.VideoID,
\* result.QualityDesc).
mergedFilename(cleanTitle, videoID, desc) ==
    cleanTitle \o <<"_", videoID, "_">> \o desc \o <<".mp4">>

\* The requests: video, part, media type, the quality of the track the
\* resolution ended with, and whether that representation is split (DASH).
Requests ==
    [VideoID : VideoIDs, CID : CIDs, MediaType : MediaTypes,
     Quality : ResultQualities, DASH : BOOLEAN]

\* The destination paths DownloadMedia sets in its result, by artifact.
DestinationPaths(req) ==
    LET cleanTitle == sanitizeFilename(Title(req.VideoID))
        desc == getQualityDescription(req.Quality)
        audio == audioFilename(cleanTitle, req.VideoID)
        video == videoFilename(cleanTitle, req.VideoID, desc)
        merged == mergedFilename(cleanTitle, req.VideoID, desc)
    IN  IF req.MediaType = "audio" THEN [audio |-> audio]
        ELSE IF req.MediaType = "video" THEN [video |-> video]
        ELSE IF req.DASH THEN [audio |-> audio, video |-> video, merged |-> merged]
        ELSE [merged |-> merged]

\* DownloadMedia computes the destination paths of one more request. The
\* audio and video types are always served by the split representation.
NamePaths(req) ==
    /\ Len(destinations) < MaxNamed
    /\ req.MediaType # "merged" => req.DASH
    /\ destinations' = Append(destinations, [req |-> req, paths |-> DestinationPaths(req)])

\* The compared requests are over.
ForgetPaths ==
    /\ Len(destinations) = MaxNamed
    /\ destinations' = <<>>

NamesNext ==
    \/ \E req \in Requests :
          NamePaths(req) /\ UNCHANGED <<poolVars, transferVars, resolveVars, deliverVars, rateVars, accountVars, sharedVars, closed, mergeVars>>
    \/ ForgetPaths /\ UNCHANGED <<poolVars, transferVars, resolveVars, deliverVars, rateVars, accountVars, sharedVars, closed, mergeVars>>

NamesInit == NewBrowserPool /\ EmptyOutputDir /\ NoRequest /\ NoDownload /\ RestInit

SpecNames == NamesInit /\ [][NamesNext]_vars

(***************************************************************************)
(* Transfers to one destination                                            *)
(***************************************************************************)
\* The chunks of a complete file.
Body == 1..BodyChunks

\* os.Remove(tempPath): the name is unlinked, whatever file it names now.
RemoveTemp == [dirent EXCEPT !["temp"] = NoFile]

\* The handler's os.Stat(absPath): an existing file is returned as it is
\* ("exists, skipped"); otherwise downloadStream is called and its request
\* is answered (or fails).
SharedStat(j) ==
    /\ shpc[j] = "idle"
    /\ IF dirent["final"] # NoFile
       THEN /\ shres' = [shres EXCEPT ![j] = "skipped"]
            /\ UNCHANGED shpc
       ELSE \/ /\ shpc' = [shpc EXCEPT ![j] = "Create"]
               /\ shres' = [shres EXCEPT ![j] = "none"]
            \/ /\ shres' = [shres EXCEPT ![j] = "http_error"]
               /\ UNCHANGED shpc
    /\ UNCHANGED <<dirent, inode, nextInode, tempFile, offset>>

\* os.Create(tempPath): O_CREATE|O_TRUNC. An absent name gets a new file; a
\* present one (another call's temp file) is truncated and opened, so both
\* calls then write to the same file, each at its own offset.
SharedCreate(j) ==
    /\ shpc[j] = "Create"
    /\ IF dirent["temp"] = NoFile
       THEN /\ nextInode <= MaxInodes
            /\ dirent' = [dirent EXCEPT !["temp"] = nextInode]
            /\ inode' = [inode EXCEPT ![nextInode] = {}]
            /\ tempFile' = [tempFile EXCEPT ![j] = nextInode]
            /\ nextInode' = nextInode + 1
       ELSE /\ inode' = [inode EXCEPT ![dirent["temp"]] = {}]
            /\ tempFile' = [tempFile EXCEPT ![j] = dirent["temp"]]
            /\ UNCHANGED <<dirent, nextInode>>
    /\ offset' = [offset EXCEPT ![j] = 0]
    /\ shpc' = [shpc EXCEPT ![j] = "Copy"]
    /\ UNCHANGED shres

\* io.Copy: one more chunk is written at the call's offset; after the last
\* chunk comes the rename; a read or write error removes tempPath.
SharedCopy(j) ==
    /\ shpc[j] = "Copy"
    /\ \/ /\ offset[j] < BodyChunks
          /\ inode' = [inode EXCEPT ![tempFile[j]] = @ \cup {offset[j] + 1}]
          /\ offset' = [offset EXCEPT ![j] = @ + 1]
          /\ UNCHANGED <<dirent, shpc, shres, tempFile>>
       \/ /\ offset[j] = BodyChunks
          /\ shpc' = [shpc EXCEPT ![j] = "Rename"]
          /\ UNCHANGED <<dirent, inode, shres, tempFile, offset>>
       \/ /\ offset[j] < BodyChunks
          /\ dirent' = RemoveTemp
          /\ shpc' = [shpc EXCEPT ![j] = "idle"]
          /\ shres' = [shres EXCEPT ![j] = "copy_error"]
          /\ tempFile' = [tempFile EXCEPT ![j] = 0]
          /\ offset' = [offset EXCEPT ![j] = 0]
          /\ UNCHANGED inode
    /\ UNCHANGED nextInode

\* tempFile.Close(); os.Rename(tempPath, outputPath): the name "final" now
\* refers to whatever file "temp" names; with no "temp" left the rename
\* fails and os.Remove(tempPath) follows.
SharedRename(j) ==
    /\ shpc[j] = "Rename"
    /\ IF dirent["temp"] # NoFile
       THEN /\ dirent' = [dirent EXCEPT !["final"] = dirent["temp"],
                                         !["temp"] = NoFile]
            /\ shres' = [shres EXCEPT ![j] = "ok"]
       ELSE /\ dirent' = RemoveTemp
            /\ shres' = [shres EXCEPT ![j] = "rename_error"]
    /\ shpc' = [shpc EXCEPT ![j] = "idle"]
    /\ tempFile' = [tempFile EXCEPT ![j] = 0]
    /\ offset' = [offset EXCEPT ![j] = 0]
    /\ UNCHANGED <<inode, nextInode>>

SharedNext ==
    \/ \E j \in Sharers : SharedStat(j) /\ UNCHANGED <<poolVars, transferVars, resolveVars, deliverVars, rateVars, accountVars, destinations, closed, mergeVars>>
    \/ \E j \in Sharers : SharedCreate(j) /\ UNCHANGED <<poolVars, transferVars, resolveVars, deliverVars, rateVars, accountVars, destinations, closed, mergeVars>>
    \/ \E j \in Sharers : SharedCopy(j) /\ UNCHANGED <<poolVars, transferVars, resolveVars, deliverVars, rateVars, accountVars, destinations, closed, mergeVars>>
    \/ \E j \in Sharers : SharedRename(j) /\ UNCHANGED <<poolVars, transferVars, resolveVars, deliverVars, rateVars, accountVars, destinations, closed, mergeVars>>

SharedInit == NewBrowserPool /\ EmptyOutputDir /\ NoRequest /\ NoDownload /\ RestInit

SpecShared == SharedInit /\ [][SharedNext]_vars

(***************************************************************************)
(* Pool shutdown                                                           *)
(***************************************************************************)
\* What an unsynchronised read of p.closed can see: Get and Put read the
\* field without p.mu while Close writes it under p.mu, so a read after
\* Close may still see false.
ClosedSeen == IF closed THEN BOOLEAN ELSE {FALSE}

\* Get, `if p.closed { return error }`, then the select.
GetCall(c) ==
    /\ pc[c] = "idle"
    /\ \E seen \in ClosedSeen :
          IF seen
          THEN /\ result' = [result EXCEPT ![c] = "closed"]
               /\ UNCHANGED pc
          ELSE /\ pc' = [pc EXCEPT ![c] = "Get"]
               /\ result' = [result EXCEPT ![c] = "none"]
    /\ waited' = [waited EXCEPT ![c] = 0]
    /\ UNCHANGED <<browsers, available, InUse, held, nputs, ctxOpen, closed>>

\* Get, `case instance := <-p.available`: a buffered instance is received
\* whether or not the channel is closed; a closed and drained channel
\* yields nil at once, and `instance.InUse = true` dereferences it.
GetFromChannel(c) ==
    /\ pc[c] = "Get"
    /\ IF available # <<>>
       THEN /\ held' = [held EXCEPT ![c] = Head(available)]
            /\ available' = Tail(available)
            /\ InUse' = [InUse EXCEPT ![Head(available)] = TRUE]
            /\ pc' = [pc EXCEPT ![c] = "holding"]
            /\ result' = [result EXCEPT ![c] = "ok"]
       ELSE /\ closed
            /\ pc' = [pc EXCEPT ![c] = "panicked"]
            /\ result' = [result EXCEPT ![c] = "nil_instance"]
            /\ UNCHANGED <<held, available, InUse>>
    /\ waited' = [waited EXCEPT ![c] = 0]
    /\ UNCHANGED <<browsers, nputs, ctxOpen, closed>>

\* Put, `if p.closed { return }`: the instance is dropped; otherwise InUse is
\* cleared under p.mu and the send is next.
PutCheck(c) ==
    /\ pc[c] = "holding"
    /\ \E seen \in ClosedSeen :
          IF seen
          THEN /\ pc' = [pc EXCEPT ![c] = "idle"]
               /\ held' = [held EXCEPT ![c] = NoInstance]
               /\ UNCHANGED InUse
          ELSE /\ pc' = [pc EXCEPT ![c] = "PutSend"]
               /\ InUse' = [InUse EXCEPT ![held[c]] = FALSE]
               /\ UNCHANGED held
    /\ UNCHANGED <<browsers, available, waited, nputs, ctxOpen, result, closed>>

\* Put, `select { case p.available <- instance: default: }`: a send on a
\* closed channel panics.
PutSend(c) ==
    /\ pc[c] = "PutSend"
    /\ IF closed
       THEN /\ pc' = [pc EXCEPT ![c] = "panicked"]
            /\ result' = [result EXCEPT ![c] = "send_on_closed"]
            /\ UNCHANGED <<available, held>>
       ELSE /\ available' = Send(available, held[c])
            /\ held' = [held EXCEPT ![c] = NoInstance]
            /\ pc' = [pc EXCEPT ![c] = "idle"]
            /\ UNCHANGED result
    /\ UNCHANGED <<browsers, InUse, waited, nputs, ctxOpen, closed>>

\* Close: under p.mu, `p.closed = true; close(p.available)`, then every
\* browser is closed and playwright stopped.
Close ==
    /\ ~closed
    /\ closed' = TRUE
    /\ UNCHANGED poolVars

ShutdownNext ==
    \/ Close /\ UNCHANGED <<transferVars, resolveVars, deliverVars, rateVars, accountVars, destinations, sharedVars, mergeVars>>
    \/ Tick /\ UNCHANGED <<transferVars, resolveVars, deliverVars, restVars>>
    \/ \E c \in Callers : GetCall(c) /\ UNCHANGED <<transferVars, resolveVars, deliverVars, rateVars, accountVars, destinations, sharedVars, mergeVars>>
    \/ \E c \in Callers : GetFromChannel(c) /\ UNCHANGED <<transferVars, resolveVars, deliverVars, rateVars, accountVars, destinations, sharedVars, mergeVars>>
    \/ \E c \in Callers : GetTimedOut(c) /\ UNCHANGED <<transferVars, resolveVars, deliverVars, restVars>>
    \/ \E c \in Callers : PutCheck(c) /\ UNCHANGED <<transferVars, resolveVars, deliverVars, rateVars, accountVars, destinations, sharedVars, mergeVars>>
    \/ \E c \in Callers : PutSend(c) /\ UNCHANGED <<transferVars, resolveVars, deliverVars, rateVars, accountVars, destinations, sharedVars, mergeVars>>

ShutdownInit == NewBrowserPool /\ EmptyOutputDir /\ NoRequest /\ NoDownload /\ RestInit

SpecShutdown == ShutdownInit /\ [][ShutdownNext]_vars

(***************************************************************************)
(* Merged downloads of the split representation, call after call           *)
(***************************************************************************)
\* tempPath := outputPath + ".downloading".
TempOf(kind) == IF kind = "audio" THEN "audio.downloading" ELSE "video.downloading"

\* A split payload with both kinds of track, as the resolution returns it
\* for every one of the identical calls.
SplitStream ==
    [Quality |-> 64, DURL |-> 0,
     DASH |-> [Video |-> <<[ID |-> 64, Height |-> 720]>>,
               Audio |-> <<[Bandwidth |-> 128000, BaseURL |-> "a2"]>>,
               present |-> TRUE]]

\* DownloadMedia for a merged request up to downloadAndMerge's first
\* os.Stat: the resolution fails, or the tracks are selected and the three
\* paths, the URLs and MergeRequired are set in the result.
MergedRequest ==
    /\ dpc = "idle"
    /\ dopts' = [MediaType |-> "merged", Quality |-> 64]
    /\ statted' = {}
    /\ transfers' = <<>>
    /\ atCall' = [dir |-> outputDir, prev |-> derr]
    /\ \/ /\ dpc' = "failed"
          /\ derr' = "resolution failed"
          /\ UNCHANGED <<dstream, dresult>>
       \/ /\ dpc' = "StatMerged"
          /\ dstream' = SplitStream
          /\ dresult' =
               [NewResult(SplitStream.Quality, SplitQualityInfo(64, SplitStream))
                  EXCEPT !.Paths = {"audio", "video", "merged"},
                         !.AudioURL = bestAudio(SplitStream.DASH.Audio),
                         !.VideoFrom = "dash",
                         !.VideoURL = bestVideo(SplitStream.DASH.Video, 64),
                         !.MergeRequired = TRUE]
          /\ derr' = ""
    /\ UNCHANGED <<muxedAt, outputDir>>

\* `if fileInfo, err := os.Stat(absMergedPath); err == nil`: the result is
\* returned with the note, else the audio is next.
StatMerged ==
    /\ dpc = "StatMerged"
    /\ IF "merged" \in outputDir
       THEN /\ statted' = {"merged"}
            /\ ReturnResult([dresult EXCEPT !.Notes = "merged exists, skipped"])
       ELSE /\ dpc' = "audio"
            /\ UNCHANGED <<statted, dresult, derr>>
    /\ UNCHANGED <<dopts, dstream, transfers, muxedAt, outputDir, atCall>>

\* What follows the audio, and what follows the video.
AfterTrack(kind) == IF kind = "audio" THEN "video" ELSE "command"

\* os.Stat of a track's path: an existing file is kept (audioExists /
\* videoExists); otherwise downloadStream is called, whose request fails or
\* whose temp file is created.
StatTrack(kind) ==
    /\ dpc = kind
    /\ IF kind \in outputDir
       THEN /\ statted' = statted \cup {kind}
            /\ dpc' = AfterTrack(kind)
            /\ UNCHANGED <<dresult, derr, transfers, outputDir>>
       ELSE \/ /\ outputDir' = outputDir \cup {TempOf(kind)}
               /\ dpc' = TempOf(kind)
               /\ UNCHANGED <<dresult, derr, transfers, statted>>
            \/ /\ transfers' = Append(transfers, [kind |-> kind, ok |-> FALSE])
               /\ ReturnError(IF kind = "audio" THEN "audio download failed"
                               ELSE "video download failed")
               /\ UNCHANGED <<statted, outputDir>>
    /\ UNCHANGED <<dopts, dstream, muxedAt, atCall>>

\* A failed copy leaving the temp file behind.
CopyTrackKeepsTemp(kind) ==
    /\ dpc = TempOf(kind)
    /\ \/ /\ outputDir' = (outputDir \ {TempOf(kind)}) \cup {kind}
          /\ transfers' = Append(transfers, [kind |-> kind, ok |-> TRUE])
          /\ dpc' = AfterTrack(kind)
          /\ UNCHANGED <<dresult, derr>>
       \/ /\ outputDir' = outputDir
          /\ transfers' = Append(transfers, [kind |-> kind, ok |-> FALSE])
          /\ ReturnError(IF kind = "audio" THEN "audio download failed"
                          ELSE "video download failed")
    /\ UNCHANGED <<dopts, dstream, statted, muxedAt, atCall>>

\* The rest of downloadStream: io.Copy and os.Rename put the file at its
\* final path, or an error removes the temp file and is returned.
CopyTrack(kind) ==
    /\ dpc = TempOf(kind)
    /\ \/ /\ outputDir' = (outputDir \ {TempOf(kind)}) \cup {kind}
          /\ transfers' = Append(transfers, [kind |-> kind, ok |-> TRUE])
          /\ dpc' = AfterTrack(kind)
          /\ UNCHANGED <<dresult, derr>>
       \/ /\ outputDir' = outputDir \ {TempOf(kind)}
          /\ transfers' = Append(transfers, [kind |-> kind, ok |-> FALSE])
          /\ ReturnError(IF kind = "audio" THEN "audio download failed"
                          ELSE "video download failed")
    /\ UNCHANGED <<dopts, dstream, statted, muxedAt, atCall>>

\* `result.MergeCommand = fmt.Sprintf("ffmpeg -i %s -i %s -c copy %s",
\* absVideoPath, absAudioPath, absMergedPath)`, the note, and the return.
MergeCommand ==
    /\ dpc = "command"
    /\ ReturnResult([dresult EXCEPT !.MergeCommand = TRUE,
                                    !.Notes = "use ffmpeg to merge"])
    /\ UNCHANGED <<dopts, dstream, statted, transfers, muxedAt, outputDir,
                   atCall>>

\* The call has returned; its error stays known to the caller.
MergedReturned ==
    /\ dpc \in {"done", "failed"}
    /\ dpc' = "idle"
    /\ dstream' = [Quality |-> 0, DURL |-> 0, DASH |-> NilDASH]
    /\ dresult' = NilResult
    /\ statted' = {}
    /\ transfers' = <<>>
    /\ UNCHANGED <<dopts, muxedAt, derr, outputDir, atCall>>

\* Between two calls the user runs the merge command, or deletes a file.
UserChangesDir ==
    /\ dpc = "idle"
    /\ \/ /\ {"audio", "video"} \subseteq outputDir
          /\ outputDir' = outputDir \cup {"merged"}
       \/ \E f \in outputDir : outputDir' = outputDir \ {f}
    /\ UNCHANGED <<deliverVars, atCall>>

MergeNext ==
    \/ MergedRequest /\ UNCHANGED <<poolVars, transferVars, resolveVars, rateVars, accountVars, destinations, sharedVars, closed>>
    \/ StatMerged /\ UNCHANGED <<poolVars, transferVars, resolveVars, rateVars, accountVars, destinations, sharedVars, closed>>
    \/ \E kind \in {"audio", "video"} : StatTrack(kind) /\ UNCHANGED <<poolVars, transferVars, resolveVars, rateVars, accountVars, destinations, sharedVars, closed>>
    \/ \E kind \in {"audio", "video"} : CopyTrack(kind) /\ UNCHANGED <<poolVars, transferVars, resolveVars, rateVars, accountVars, destinations, sharedVars, closed>>
    \/ MergeCommand /\ UNCHANGED <<poolVars, transferVars, resolveVars, rateVars, accountVars, destinations, sharedVars, closed>>
    \/ MergedReturned /\ UNCHANGED <<poolVars, transferVars, resolveVars, rateVars, accountVars, destinations, sharedVars, closed>>
    \/ UserChangesDir /\ UNCHANGED <<poolVars, transferVars, resolveVars, rateVars, accountVars, destinations, sharedVars, closed>>

MergeInit == NewBrowserPool /\ EmptyOutputDir /\ NoRequest /\ NoDownload /\ RestInit

SpecMerge == MergeInit /\ [][MergeNext]_vars

(***************************************************************************)
(* Account store                                                           *)
(***************************************************************************)
\* The names in the stored list.
StoredNames == {accounts[i].Name : i \in DOMAIN accounts}

\* The index of the first stored account called name (the loops `break` on
\* the first match).
FirstIndex(list, name) ==
    CHOOSE i \in DOMAIN list :
        list[i].Name = name /\ \A k \in DOMAIN list : list[k].Name = name => i <= k

\* The outcome recorded for an operation.
Op(op, name, ok) == [op |-> op, name |-> name, ok |-> ok]

\* Login: saveCookies writes the cookie file, then SaveAccount is called
\* with a fresh Account (IsActive true, IsDefault not set). A stored account
\* of that name is replaced by it, else it is appended; a list of one has
\* its account marked default.
SaveAccount(name) ==
    LET account == [Name |-> name, IsDefault |-> FALSE, IsActive |-> TRUE]
        updated == IF name \in StoredNames
                   THEN [accounts EXCEPT ![FirstIndex(accounts, name)] = account]
                   ELSE Append(accounts, account)
    IN  /\ cookieFiles' = cookieFiles \cup {name}
        /\ accounts' = IF Len(updated) = 1
                       THEN [updated EXCEPT ![1].IsDefault = TRUE]
                       ELSE updated
        /\ lastOp' = Op("SaveAccount", name, TRUE)

\* SetDefaultAccount marking the named account without clearing the others.
SetDefaultKeepsOthers(name) ==
    /\ IF name \in StoredNames
       THEN /\ accounts' = [i \in DOMAIN accounts |->
                              IF accounts[i].Name = name
                              THEN [accounts[i] EXCEPT !.IsDefault = TRUE]
                              ELSE accounts[i]]
            /\ lastOp' = Op("SetDefaultAccount", name, TRUE)
       ELSE /\ accounts' = accounts
            /\ lastOp' = Op("SetDefaultAccount", name, FALSE)
    /\ UNCHANGED cookieFiles

\* SetDefaultAccount: every account's IsDefault is set to whether its name
\* is the given one; without a match the error is returned before the list
\* is saved.
SetDefaultAccount(name) ==
    /\ IF name \in StoredNames
       THEN /\ accounts' = [i \in DOMAIN accounts |->
                              [accounts[i] EXCEPT
                                 !.IsDefault = (accounts[i].Name = name)]]
            /\ lastOp' = Op("SetDefaultAccount", name, TRUE)
       ELSE /\ accounts' = accounts
            /\ lastOp' = Op("SetDefaultAccount", name, FALSE)
    /\ UNCHANGED cookieFiles

\* ActivateAccount / DeactivateAccount: IsActive of the first match is set.
SetActive(op, name, active) ==
    /\ IF name \in StoredNames
       THEN /\ accounts' = [accounts EXCEPT
                              ![FirstIndex(accounts, name)].IsActive = active]
            /\ lastOp' = Op(op, name, TRUE)
       ELSE /\ accounts' = accounts
            /\ lastOp' = Op(op, name, FALSE)
    /\ UNCHANGED cookieFiles

ActivateAccount(name) == SetActive("ActivateAccount", name, TRUE)

DeactivateAccount(name) == SetActive("DeactivateAccount", name, FALSE)

\* DeleteAccount: the accounts of that name are left out and their cookie
\* file removed; without a match the error is returned; a remaining list
\* without a default gets its first account marked.
DeleteAccount(name) ==
    LET newAccounts == SelectSeq(accounts, LAMBDA acc : acc.Name # name)
        hasDefault == \E i \in DOMAIN newAccounts : newAccounts[i].IsDefault
    IN  IF name \in StoredNames
        THEN /\ cookieFiles' = cookieFiles \ {name}
             /\ accounts' = IF Len(newAccounts) > 0 /\ ~hasDefault
                            THEN [newAccounts EXCEPT ![1].IsDefault = TRUE]
                            ELSE newAccounts
             /\ lastOp' = Op("DeleteAccount", name, TRUE)
        ELSE /\ lastOp' = Op("DeleteAccount", name, FALSE)
             /\ UNCHANGED <<accounts, cookieFiles>>

AccountNext ==
    \/ \E name \in AccountNames : SaveAccount(name) /\ UNCHANGED <<poolVars, transferVars, resolveVars, deliverVars, rateVars, destinations, sharedVars, closed, mergeVars>>
    \/ \E name \in AccountNames : SetDefaultAccount(name) /\ UNCHANGED <<poolVars, transferVars, resolveVars, deliverVars, rateVars, destinations, sharedVars, closed, mergeVars>>
    \/ \E name \in AccountNames : ActivateAccount(name) /\ UNCHANGED <<poolVars, transferVars, resolveVars, deliverVars, rateVars, destinations, sharedVars, closed, mergeVars>>
    \/ \E name \in AccountNames : DeactivateAccount(name) /\ UNCHANGED <<poolVars, transferVars, resolveVars, deliverVars, rateVars, destinations, sharedVars, closed, mergeVars>>
    \/ \E name \in AccountNames : DeleteAccount(name) /\ UNCHANGED <<poolVars, transferVars, resolveVars, deliverVars, rateVars, destinations, sharedVars, closed, mergeVars>>

AccountInit == NewBrowserPool /\ EmptyOutputDir /\ NoRequest /\ NoDownload /\ RestInit

SpecAccounts == AccountInit /\ [][AccountNext]_vars

RateInit == NewBrowserPool /\ EmptyOutputDir /\ NoRequest /\ NoDownload /\ RestInit

SpecRate == RateInit /\ [][RateNext]_vars

ResolveInit == NewBrowserPool /\ EmptyOutputDir /\ NoRequest /\ NoDownload /\ RestInit

SpecResolve == ResolveInit /\ [][ResolveNext]_vars

TransferInit == NewBrowserPool /\ EmptyOutputDir /\ NoRequest /\ NoDownload /\ RestInit

SpecTransfer == TransferInit /\ [][TransferNext]_vars

PoolInit == NewBrowserPool /\ EmptyOutputDir /\ NoRequest /\ NoDownload /\ RestInit

SpecPool == PoolInit /\ [][PoolNext]_vars

(***************************************************************************)
(* Claims about the browser pool (checked under SpecPool)                  *)
(***************************************************************************)
Holders == {c \in Callers : held[c] # NoInstance}

AtSelect == {c \in Callers : pc[c] = "Get"}

NoDuplicates(s) == \A i, j \in DOMAIN s : i # j => s[i] # s[j]

\* C1: no browser instance is held by two callers at once: an instance that
\* Get handed out is out of the channel, marked in use, and held by no other
\* caller until its holder Puts it back.
C1_ExclusiveHold ==
    \A c \in Holders :
        /\ held[c] \in Instances
        /\ held[c] \notin Range(available)
        /\ InUse[held[c]]
        /\ \A d \in Callers \ {c} : held[d] # held[c]

\* Every instance is handed out while a further caller, which has already
\* finished one call, is blocked.
C1_Witness ==
    /\ Cardinality(Holders) = PoolSize
    /\ \E c \in AtSelect : nputs[c] = 0 /\ waited[c] > 0
    /\ \E c \in Holders : pc[c] = "handler"

\* C2: every checkout made by GetWithAuth is paired with exactly one Put on
\* every exit path: a finished call holds nothing, has closed its sub-context
\* and has Put exactly once if it got an instance (not at all if Get timed
\* out); a call in progress past Get holds its instance and has not Put yet;
\* and when no call is in flight all PoolSize instances are in the channel.
C2_PairedRelease ==
    /\ \A c \in Callers :
          /\ pc[c] = "idle" =>
                /\ held[c] = NoInstance
                /\ ~ctxOpen[c]
                /\ nputs[c] = IF result[c] \in {"none", "timeout"} THEN 0 ELSE 1
          /\ pc[c] \notin {"idle", "Get"} =>
                /\ held[c] # NoInstance
                /\ nputs[c] = 0
          /\ pc[c] = "Get" => held[c] = NoInstance /\ nputs[c] = 0
    /\ (\A c \in Callers : pc[c] = "idle") =>
          /\ Len(available) = PoolSize
          /\ Range(available) = Instances

\* All calls have finished, among them a failed cookie load, a cancelled
\* handler and a successful one.
C2_Witness ==
    /\ \A c \in Callers : pc[c] = "idle"
    /\ \E c \in Callers : result[c] = "load_cookies_error"
    /\ \E c \in Callers : result[c] = "cancelled"
    /\ \E c \in Callers : result[c] = "ok"

\* C3 (state part): the instances are either in the channel or held, so at
\* most PoolSize callers hold one; whenever no receive is pending, the
\* callers blocked in Get are exactly those beyond the pool's capacity; a
\* blocked caller can receive as soon as an instance is in the channel.
C3_Bounded ==
    /\ Cardinality(Holders) + Len(available) = PoolSize
    /\ (available = <<>> \/ AtSelect = {}) =>
          Cardinality(AtSelect) =
            IF Cardinality(Holders \cup AtSelect) > PoolSize
            THEN Cardinality(Holders \cup AtSelect) - PoolSize
            ELSE 0
    /\ \A c \in AtSelect : waited[c] <= GetTimeout
    /\ \A c \in AtSelect : available # <<>> => ENABLED GetReceive(c)

\* C3 (step part): a caller leaves the select with an instance only by
\* taking the head of a non-empty channel, and an empty channel becomes
\* non-empty only through the Put of a caller that held the instance.
C3_Step ==
    /\ \A c \in Callers :
          (pc[c] = "Get" /\ pc'[c] = "NewContext") =>
              /\ available # <<>>
              /\ held'[c] = Head(available)
    /\ (available = <<>> /\ available' # <<>>) =>
          \E d \in Holders : held'[d] = NoInstance /\ available' = <<held[d]>>

\* C3: with capacity PoolSize and more concurrent checkouts than that, the
\* first PoolSize obtain an instance, the others block, and a blocked call
\* gets an instance once, and only after, a holder has checked one in.
C3_BlockedUntilCheckin == []C3_Bounded /\ [][C3_Step]_vars

\* A caller that was blocked for a while has received an instance, while
\* another caller that Put one back is idle.
C3_Witness ==
    /\ \E c \in Holders : pc[c] = "NewContext" /\ waited[c] > 0
    /\ \E d \in Callers : pc[d] = "idle" /\ nputs[d] = 1
    /\ Cardinality(Holders) = PoolSize

\* C4 (state part): a call that ended with the pool-exhausted failure waited
\* the whole timeout, holds nothing and made no Put.
C4_TimedOutState ==
    \A c \in Callers :
        result[c] = "timeout" =>
            /\ pc[c] = "idle"
            /\ waited[c] >= GetTimeout
            /\ held[c] = NoInstance
            /\ nputs[c] = 0

\* C4 (step part): time passes for a caller in Get only while the channel
\* is empty; the failure is produced in one step from the select, leaves the
\* channel as it was and ends the call (no second attempt).
C4_Step ==
    \A c \in Callers :
        /\ (pc[c] = "Get" /\ waited'[c] > waited[c]) => available = <<>>
        /\ (result[c] # "timeout" /\ result'[c] = "timeout") =>
              /\ pc[c] = "Get" /\ pc'[c] = "idle"
              /\ available' = available
              /\ held' = held

\* C4: Get blocks until an instance is free; after GetTimeout seconds
\* without one it fails, takes nothing out of the channel, and the failure
\* ends the call without a retry.
C4_TimeoutIsTerminal == []C4_TimedOutState /\ [][C4_Step]_vars

\* A call has timed out while every instance was held by other callers.
C4_Witness ==
    /\ \E c \in Callers : result[c] = "timeout" /\ pc[c] = "idle"
    /\ available = <<>>
    /\ Cardinality(Holders) = PoolSize

\* C5: the pool owns exactly the PoolSize instances created at
\* construction; the channel never holds more than PoolSize entries, none
\* twice, and nothing that is not one of those instances.
C5_FixedPool ==
    /\ browsers = [i \in Instances |-> i]
    /\ Len(browsers) = PoolSize
    /\ Len(available) <= PoolSize
    /\ NoDuplicates(available)
    /\ Range(available) \subseteq Range(browsers)
    /\ \A c \in Holders : held[c] \in Range(browsers)

\* The channel is full again after instances went out and came back in
\* another order.
C5_Witness ==
    /\ Len(available) = PoolSize
    /\ available # browsers
    /\ \E c \in Callers : result[c] = "ok"

(***************************************************************************)
(* Claims about the transfer engine (checked under SpecTransfer)           *)
(***************************************************************************)
Returned == {j \in Jobs : jpc[j] = "returned"}

\* C6: when a transfer returns an error (HTTP error, status other than 200,
\* temp file not created, failed copy, failed rename) and the destination
\* did not exist before the call, neither the destination nor its
\* ".downloading" temp file exists.
C6_NoPartialArtifact ==
    \A j \in Returned :
        (jres[j].err # "none" /\ ~existed[j]) =>
            /\ fs[Final(jpath[j])] = NoFile
            /\ fs[Temp(jpath[j])] = NoFile

\* A transfer has failed in the middle of the body, after bytes had been
\* written to the temp file.
C6_Witness ==
    \E j \in Returned :
        /\ jres[j].err = "copy_error"
        /\ written[j] > 0
        /\ ~existed[j]

\* C7 (state part): a request that found its destination on disk issued no
\* GET, succeeded, and reports the size the file has, with the "already
\* exists" note; and no destination is downloaded successfully twice.
C7_SkipState ==
    /\ \A j \in Returned :
          existed[j] =>
              /\ gets[j] = 0
              /\ jres[j] = [err |-> "none",
                            size |-> fs[Final(jpath[j])],
                            note |-> "exists"]
              /\ fs[Final(jpath[j])] # NoFile
    /\ \A j \in Jobs : gets[j] > 0 => ~existed[j]
    /\ \A p \in Paths : downloads[p] <= 1

\* C7 (step part): a file at a destination path is never modified.
C7_Step ==
    \A p \in Paths : fs[Final(p)] # NoFile => fs'[Final(p)] = fs[Final(p)]

\* C7: a request whose destination already exists transfers nothing, leaves
\* the file as it is and succeeds with the file's size.
C7_ExistingIsSkipped == []C7_SkipState /\ [][C7_Step]_vars

\* A request has been answered from a file that an earlier request
\* downloaded.
C7_Witness ==
    \E j \in Returned :
        /\ existed[j]
        /\ jres[j].note = "exists"
        /\ jres[j].size > 0
        /\ downloads[jpath[j]] = 1

\* C8 (state part): when a transfer returns success the destination holds
\* exactly the bytes copied, which is the count returned, and no temp file
\* remains.
C8_CommittedState ==
    \A j \in Returned :
        jres[j].note = "downloaded" =>
            /\ jres[j].err = "none"
            /\ jres[j].size = written[j]
            /\ fs[Final(jpath[j])] = written[j]
            /\ fs[Temp(jpath[j])] = NoFile

\* C8 (step part): a destination comes into existence only as the renamed
\* temp file of a request whose copy has ended, with all its bytes, and is
\* not written afterwards.
C8_Step ==
    \A p \in Paths :
        /\ (fs[Final(p)] = NoFile /\ fs'[Final(p)] # NoFile) =>
              \E j \in Jobs :
                  /\ jpc[j] = "Rename" /\ jpath[j] = p
                  /\ fs[Temp(p)] = written[j]
                  /\ fs'[Final(p)] = fs[Temp(p)]
                  /\ fs'[Temp(p)] = NoFile
        /\ fs[Final(p)] # NoFile => fs'[Final(p)] = fs[Final(p)]

\* C8: a successful transfer commits the fully written temp file by rename.
C8_AtomicCommit == []C8_CommittedState /\ [][C8_Step]_vars

\* A transfer of a body of MaxBody chunks has returned success.
C8_Witness ==
    \E j \in Returned :
        /\ jres[j].note = "downloaded"
        /\ written[j] = MaxBody
        /\ fs[Final(jpath[j])] = MaxBody

(***************************************************************************)
(* Claims about the stream resolver (checked under SpecResolve)            *)
(***************************************************************************)
\* The quality codes the height mapping of the legacy endpoint can give.
HeightCodes == {120, 80, 64, 32, 16}

\* The ids the documented sequences allow for a request: the requested
\* quality, the muxed fallbacks 80, 64, 32, 16, the split default 80 and the
\* height-derived codes.
DocumentedIds(q) == {q} \cup {80, 64, 32, 16} \cup HeightCodes

\* The ids a muxed probe for requested quality q may carry.
DocumentedMuxedIds(q) ==
    (IF q > 0 THEN {q} ELSE {}) \cup (IF q >= 80 THEN {80} ELSE {})
        \cup {64, 32, 16}

DocumentedProbeOrder(q) ==
    IF q >= 80 THEN <<q, 80, 64, 32, 16>>
    ELSE IF q > 0 THEN <<q, 64, 32, 16>>
    ELSE <<64, 32, 16>>

\* C10: the muxed probes of a merged request follow the documented order;
\* a probe without segments is skipped; the first probe with segments ends
\* the resolution, tagged HasAudio with that probe's quality, and is the
\* last call made; the split representation is fetched only after every
\* probe of the order has failed.
C10_MuxedProbeOrder ==
    LET order == DocumentedProbeOrder(opts.Quality)
        n == Len(Probed)
    IN  /\ opts.MediaType # "merged" => n = 0
        /\ n <= Len(order)
        /\ \A i \in 1..n : Probed[i].qn = order[i] /\ Probed[i].fnval = 1
        /\ \A i \in 1..(n - 1) : ~Probed[i].found
        /\ (n > 0 /\ Probed[n].found) =>
              /\ rpc = "done" /\ via = "muxed"
              /\ currentQuality.Quality = order[n]
              /\ currentQuality.HasAudio
              /\ calls[Len(calls)] = Probed[n]
        /\ via = "muxed" => (n > 0 /\ Probed[n].found)
        /\ (rpc \in {"Split", "Legacy"} \/ via \in {"split", "legacy"}) =>
              (n = Len(order) /\ ~Probed[n].found)

\* A request for 112 found its muxed representation at the third probe,
\* after 112 and 80 had failed.
C10_Witness ==
    /\ rpc = "done"
    /\ via = "muxed"
    /\ opts.Quality = 112
    /\ Len(Probed) = 3
    /\ currentQuality = [Quality |-> 64, Height |-> 0,
                         HasAudio |-> TRUE, Available |-> TRUE]

\* The split fetches made so far by getOptimalStream.
SplitCalls == SelectSeq(calls, LAMBDA e : e.by = "split")

\* s is a prefix of t.
IsPrefix(s, t) == Len(s) <= Len(t) /\ \A i \in 1..Len(s) : s[i] = t[i]

\* The qualities of the muxed probes made so far, in order.
ProbedQualities == [i \in 1..Len(Probed) |-> Probed[i].qn]

\* C11 as stated: a merged request for quality 90 without any muxed
\* representation probes 90, 64, 32, 16 in that order and then fetches the
\* split representation at the default target 80.
C11_Probes90Then64 ==
    (opts.MediaType = "merged" /\ opts.Quality = 90) =>
        /\ IsPrefix(ProbedQualities, <<90, 64, 32, 16>>)
        /\ \A i \in 1..Len(SplitCalls) : SplitCalls[i].qn = 80

\* C11 as amended: a merged request for quality 90 probes the muxed
\* representation at 90, 80, 64, 32, 16 in that order (90 >= 80, so 80 is
\* part of the order); the split representation is fetched once, only after
\* all five probes have failed, and at the requested quality 90.
C11_Probes90Then80 ==
    (opts.MediaType = "merged" /\ opts.Quality = 90) =>
        /\ IsPrefix(ProbedQualities, <<90, 80, 64, 32, 16>>)
        /\ Len(SplitCalls) <= 1
        /\ \A i \in 1..Len(SplitCalls) :
              /\ SplitCalls[i].qn = 90
              /\ SplitCalls[i].fnval = 16
              /\ ProbedQualities = <<90, 80, 64, 32, 16>>
              /\ \A k \in 1..Len(Probed) : ~Probed[k].found
        /\ \A i \in 1..Len(calls) :
              calls[i].by = "split" =>
                 \A k \in 1..Len(calls) : calls[k].by = "select" => k < i

\* A merged request for 90 whose five muxed probes failed was resolved
\* through the split representation.
C11_Witness ==
    /\ rpc = "done"
    /\ via = "split"
    /\ opts = [MediaType |-> "merged", Quality |-> 90]
    /\ Len(Probed) = 5
    /\ Len(SplitCalls) = 1

(***************************************************************************)
(* Claims about track selection and artifacts (checked under SpecDeliver)  *)
(***************************************************************************)
\* The audio list s reordered by the permutation f of its indices.
Permuted(s, f) == [i \in DOMAIN s |-> s[f[i]]]

\* The bandwidths of the list are pairwise distinct.
DistinctBandwidths(s) ==
    \A i, k \in DOMAIN s : i # k => s[i].Bandwidth # s[k].Bandwidth

\* C12: whenever an audio track has been selected (audio-only download or
\* split download for merging), it is a track of the manifest with the
\* maximum bandwidth and the first listed one with that bandwidth; when the
\* bandwidths are distinct, every reordering of the list selects the same
\* track.
C12_BestAudioIsFirstMaximum ==
    (dpc = "done" /\ "audio" \in dresult.Paths) =>
        LET audio == dstream.DASH.Audio
            sel == dresult.AudioURL
        IN  /\ \E i \in DOMAIN audio :
                  /\ audio[i] = sel
                  /\ \A k \in DOMAIN audio : audio[k].Bandwidth <= sel.Bandwidth
                  /\ \A k \in 1..(i - 1) : audio[k].Bandwidth < sel.Bandwidth
            /\ DistinctBandwidths(audio) =>
                  \A f \in Permutations(DOMAIN audio) :
                      bestAudio(Permuted(audio, f)) = sel

\* An audio-only download chose the first of two tracks tied at 128000.
C12_Witness ==
    /\ dpc = "done"
    /\ dopts.MediaType = "audio"
    /\ dstream.DASH.Audio = << [Bandwidth |-> 128000, BaseURL |-> "a3"],
                               [Bandwidth |-> 128000, BaseURL |-> "a2"] >>
    /\ dresult.AudioURL = [Bandwidth |-> 128000, BaseURL |-> "a3"]
    /\ transfers = <<[kind |-> "audio", ok |-> TRUE]>>

\* The ids of the video tracks of a list.
TrackIds(video) == {video[i].ID : i \in DOMAIN video}

\* C13: a video request whose quality q is the id of one of the manifest's
\* video tracks, once its download has completed, has selected the track
\* with id q, has written the video artifact only (one transfer, to the
\* video path), no audio artifact, and carries no merge instruction.
C13_VideoTrackIsRequested ==
    (/\ dpc = "done"
     /\ dopts.MediaType = "video"
     /\ dopts.Quality \in TrackIds(dstream.DASH.Video)
     /\ statted = {}) =>
        /\ dresult.VideoURL.ID = dopts.Quality
        /\ transfers = <<[kind |-> "video", ok |-> TRUE]>>
        /\ dresult.Paths = {"video"}
        /\ dresult.AudioURL = NoAudio
        /\ ~dresult.MergeRequired
        /\ ~dresult.MergeCommand

\* C14: a merged request without a quality, for a video that has a muxed
\* representation at 64, resolves to that representation (quality 64,
\* HasAudio); its download touches the merged path only (at most one
\* transfer, to the merged path; no audio or video track selected), fails
\* only if that transfer fails, and its result has MergeRequired = false and
\* no merge command.
C14_MuxedAt64IsOneArtifact ==
    (/\ dopts = [MediaType |-> "merged", Quality |-> 0]
     /\ 64 \in muxedAt
     /\ dpc \in {"resolved", "done", "failed"}
     /\ derr # "resolution failed") =>
        /\ dpc # "failed" =>
              /\ dresult.CurrentQuality.Quality = 64
              /\ dresult.CurrentQuality.HasAudio
              /\ ~dresult.MergeRequired
              /\ ~dresult.MergeCommand
              /\ dresult.AudioURL = NoAudio
              /\ dresult.VideoURL = NoTrack
        /\ dstream.DURL > 0
        /\ \A i \in DOMAIN transfers : transfers[i].kind = "merged"
        /\ Len(transfers) <= 1
        /\ dpc = "done" =>
              /\ dresult.Paths = {"merged"}
              /\ (statted = {} <=> transfers = <<[kind |-> "merged", ok |-> TRUE]>>)
        /\ dpc = "failed" => transfers = <<[kind |-> "merged", ok |-> FALSE]>>

\* Such a request has downloaded its single merged file.
C14_Witness ==
    /\ dpc = "done"
    /\ dopts = [MediaType |-> "merged", Quality |-> 0]
    /\ 64 \in muxedAt
    /\ dresult.CurrentQuality = MuxedQualityInfo(64)
    /\ transfers = <<[kind |-> "merged", ok |-> TRUE]>>
    /\ dresult.Paths = {"merged"}

\* The request needs an audio track / a video track of the manifest.
AudioRequired == dopts.MediaType \in {"audio", "merged"}

VideoRequired == dopts.MediaType \in {"video", "merged"}

\* C15: when the manifest handed to the download step lists no audio track
\* although the request needs one, or no video track although it needs one,
\* the request fails with the missing-stream error: nothing is looked up or
\* transferred, no track is selected and no result is returned.
C15_MissingTrackFails ==
    (/\ dpc \in {"done", "failed"}
     /\ derr # "resolution failed"
     /\ dstream.DASH.present
     /\ \/ AudioRequired /\ Len(dstream.DASH.Audio) = 0
        \/ VideoRequired /\ Len(dstream.DASH.Video) = 0) =>
        /\ dpc = "failed"
        /\ derr \in {"no audio stream", "no video stream",
                     "missing audio or video stream"}
        /\ transfers = <<>>
        /\ statted = {}
        /\ dresult = NilResult

\* A merged request resolved to a split manifest with video tracks but no
\* audio track has failed.
C15_Witness ==
    /\ dpc = "failed"
    /\ dopts.MediaType = "merged"
    /\ dstream.DASH.present
    /\ Len(dstream.DASH.Audio) = 0
    /\ Len(dstream.DASH.Video) > 0
    /\ derr = "missing audio or video stream"

(***************************************************************************)
(* Claims about the quality catalog (checked under SpecResolve)            *)
(***************************************************************************)
\* The calls getAvailableQualities has made for the current request.
CatalogCalls == SelectSeq(calls, LAMBDA e : e.by = "catalog")

\* getAvailableQualities panicked: the request ended in a panic right after
\* one of its calls.
CatalogPanicked ==
    /\ rpc = "panicked"
    /\ Len(calls) > 0
    /\ calls[Len(calls)].by = "catalog"

\* getAvailableQualities has returned to its caller.
CatalogReturned == Len(CatalogCalls) > 0 /\ ~CatalogPanicked

\* The documented fallback list.
FallbackCatalog ==
    << [Quality |-> 80, Height |-> 0, HasAudio |-> FALSE, Available |-> TRUE],
       [Quality |-> 64, Height |-> 0, HasAudio |-> TRUE, Available |-> TRUE],
       [Quality |-> 32, Height |-> 0, HasAudio |-> TRUE, Available |-> TRUE],
       [Quality |-> 16, Height |-> 0, HasAudio |-> TRUE, Available |-> TRUE] >>

\* The second half of C16: when the split-manifest probe (the first catalog
\* call) has failed, the catalog is exactly the fallback list and no further
\* probe was made.
C16_FallbackList ==
    (CatalogReturned /\ ~CatalogCalls[1].found) =>
        /\ availableQualities = FallbackCatalog
        /\ Len(CatalogCalls) = 1

\* C16: catalog enumeration never fails, whatever the collaborator answers
\* (it always returns to its caller), and a failed split-manifest probe
\* gives exactly the fallback list [80, 64, 32, 16], all available, with
\* HasAudio for 64, 32 and 16 only.
C16_CatalogNeverFails ==
    /\ ~CatalogPanicked
    /\ C16_FallbackList

(***************************************************************************)
(* Cancellation and timeout of a transfer (checked under SpecTransfer)     *)
(***************************************************************************)
\* A request that returned the context's error has no temp file and, having
\* found no file at its destination, no final file either; it reports size
\* 0 and counts as no download.
C17_CancelledState ==
    \A j \in Jobs :
        (jpc[j] = "returned" /\ jres[j].err = "context") =>
            /\ fs[Temp(jpath[j])] = NoFile
            /\ fs[Final(jpath[j])] = NoFile
            /\ ~existed[j]
            /\ jres[j].size = 0
            /\ jres[j].note = "none"

\* Whatever a request whose context is done does next while in io.Copy, it
\* writes no further byte, removes its temp file, leaves the final path
\* empty and returns the context's error.
C17_Step ==
    \A j \in Jobs :
        (/\ jpc[j] = "Copy"
         /\ ctxDone[j]
         /\ (jpc'[j] # jpc[j] \/ written'[j] # written[j])) =>
            /\ jpc'[j] = "returned"
            /\ jres'[j].err = "context"
            /\ written'[j] = written[j]
            /\ fs'[Temp(jpath[j])] = NoFile
            /\ fs[Temp(jpath[j])] # NoFile
            /\ fs'[Final(jpath[j])] = NoFile

\* C17: a cancellation or a timeout while the body is being copied aborts
\* the copy, deletes the temp file and returns a failure; no file is at the
\* final path and no temp file remains.
C17_CancelAbortsCopy == []C17_CancelledState /\ [][C17_Step]_vars

\* A request cancelled after its first chunk was written has returned the
\* context's error.
C17_Witness ==
    \E j \in Jobs :
        /\ jpc[j] = "returned"
        /\ jres[j].err = "context"
        /\ ctxDone[j]
        /\ written[j] = 1
        /\ gets[j] = 1
        /\ fs[Temp(jpath[j])] = NoFile
        /\ fs[Final(jpath[j])] = NoFile

(***************************************************************************)
(* The legacy fallback of the resolver (checked under SpecResolve)         *)
(***************************************************************************)
\* The last collaborator call of the current request.
LastCall == calls[Len(calls)]

\* C18: a merged request falls back to GetPlayUrl exactly when its split
\* fetch has failed after every muxed probe failed; a resolution that ended
\* through GetPlayUrl is a success with HasAudio = false built from the
\* converted manifest; and a merged resolution that has made calls returns
\* an error only when GetPlayUrl itself failed, never for the split fetch.
C18_SplitFailureDegrades ==
    /\ rpc = "Legacy" =>
          /\ opts.MediaType = "merged"
          /\ LastCall.by = "split" /\ ~LastCall.found
          /\ \A i \in 1..Len(Probed) : ~Probed[i].found
    /\ via = "legacy" =>
          /\ rpc = "done"
          /\ ~currentQuality.HasAudio /\ currentQuality.Available
          /\ LastCall.api = "GetPlayUrl" /\ LastCall.found
          /\ calls[Len(calls) - 1].by = "split"
          /\ ~calls[Len(calls) - 1].found
          /\ streamData.DASH.present
          /\ streamData.Quality = getQualityFromVideo(streamData.DASH.Video)
    /\ (opts.MediaType = "merged" /\ rpc = "failed" /\ calls # <<>>) =>
          /\ LastCall.api = "GetPlayUrl" /\ ~LastCall.found
          /\ calls[Len(calls) - 1].by = "split"
    /\ (calls # <<>> /\ LastCall.by = "split" /\ ~LastCall.found) =>
          rpc \in {"Legacy", "panicked"}

\* A merged request whose split fetch failed was resolved by GetPlayUrl.
C18_Witness ==
    /\ rpc = "done"
    /\ via = "legacy"
    /\ opts.MediaType = "merged"
    /\ Len(calls) >= 2
    /\ calls[Len(calls) - 1].by = "split"
    /\ ~calls[Len(calls) - 1].found
    /\ ~currentQuality.HasAudio

(***************************************************************************)
(* Claims about the height mapping (checked under SpecConvert)             *)
(***************************************************************************)
\* The largest height among the tracks of a non-empty list.
MaxHeight(videos) ==
    CHOOSE h \in {videos[i].Height : i \in DOMAIN videos} :
        \A i \in DOMAIN videos : videos[i].Height <= h

\* The documented mapping from a height to a quality code.
HeightCode(h) ==
    IF h >= 2160 THEN 120
    ELSE IF h >= 1080 THEN 80
    ELSE IF h >= 720 THEN 64
    ELSE IF h >= 480 THEN 32
    ELSE 16

\* C19 as stated: the quality code of a legacy candidate is the documented
\* function of the maximum height of its video tracks, and 16 (360p) in
\* every other case, the empty list included.
C19_HeightCodeAlways ==
    (rpc = "done" /\ via = "playurl") =>
        LET videos == streamData.DASH.Video
        IN  /\ resultQuality = IF Len(videos) = 0 THEN 16
                               ELSE HeightCode(MaxHeight(videos))
            /\ currentQuality.Quality = resultQuality

\* C19 as amended: for a non-empty list the code is the documented function
\* of the maximum height (16 when it is below 480); for an empty list it is
\* 64, the 720P default.
C19_HeightCodeOrDefault ==
    (rpc = "done" /\ via = "playurl") =>
        LET videos == streamData.DASH.Video
        IN  /\ resultQuality = IF Len(videos) = 0 THEN 64
                               ELSE HeightCode(MaxHeight(videos))
            /\ currentQuality.Quality = resultQuality

\* Two tracks, the lower one listed first: the code is the one of the
\* higher track.
C19_Witness ==
    /\ rpc = "done"
    /\ via = "playurl"
    /\ Len(streamData.DASH.Video) = 2
    /\ streamData.DASH.Video[1].Height = 479
    /\ streamData.DASH.Video[2].Height = 1080
    /\ resultQuality = 80

(***************************************************************************)
(* Claims about the catalog of a successful probe (under SpecResolve)      *)
(***************************************************************************)
\* The documented preference order of the catalog.
PreferenceOrder == <<127, 125, 126, 120, 116, 112, 80, 74, 64, 32, 16>>

\* The position of a quality id in the documented order.
PreferenceRank(q) == CHOOSE i \in DOMAIN PreferenceOrder : PreferenceOrder[i] = q

\* The ids of the catalog entries.
CatalogIds == {availableQualities[i].Quality : i \in DOMAIN availableQualities}

\* The muxed probes of getAvailableQualities that returned segments.
CatalogMuxedHits == {e.qn : e \in {x \in Range(CatalogCalls) : x.fnval = 1 /\ x.found}}

\* C20: after a successful split-manifest probe the catalog has exactly one
\* entry for every distinct video-track id of the manifest (none dropped,
\* none twice, none that neither the manifest nor a muxed probe showed), in
\* the documented preference order, and HasAudio only on entries whose
\* muxed probe (at 64, 32 or 16) returned segments.
C20_CatalogListsEveryTrackId ==
    (CatalogReturned /\ CatalogCalls[1].found) =>
        /\ manifestIds \subseteq CatalogIds
        /\ CatalogIds \subseteq manifestIds \cup CatalogMuxedHits
        /\ \A i, k \in DOMAIN availableQualities :
              i < k => availableQualities[i].Quality # availableQualities[k].Quality
        /\ \A i, k \in DOMAIN availableQualities :
              i < k => PreferenceRank(availableQualities[i].Quality)
                         < PreferenceRank(availableQualities[k].Quality)
        /\ \A i \in DOMAIN availableQualities :
              availableQualities[i].HasAudio =>
                  /\ availableQualities[i].Quality \in {64, 32, 16}
                  /\ availableQualities[i].Quality \in CatalogMuxedHits

(***************************************************************************)
(* C21                                                                     *)
(***************************************************************************)
\* C21: the authenticated session is torn down and its instance checked back
\* into the pool once the credentials have been read, before resolution and
\* transfer start: a caller inside DownloadMedia holds no instance and has no
\* open sub-context.
C21_ReleasedBeforeDownload ==
    \A c \in Callers :
        pc[c] = "DownloadMedia" => held[c] = NoInstance /\ ~ctxOpen[c]

(***************************************************************************)
(* C22                                                                     *)
(***************************************************************************)
\* C22: the request's cancellation context reaches every resolver probe:
\* once the context is done while the resolution is in progress, the next
\* step of the resolution issues no further collaborator call and ends the
\* request with a failure (so no transfer is started).
C22_CancelStopsResolution ==
    [][(resolveCtxDone /\ rpc \in Resolving)
          => (calls' = calls /\ rpc' = "failed")]_vars

(***************************************************************************)
(* C23                                                                     *)
(***************************************************************************)
\* C23, the state part: for every key, any two calls admitted for it are at
\* least the key's minInterval apart.
C23_Spaced ==
    \A k \in Keys : \A i, j \in DOMAIN admitted[k] :
        i < j => admitted[k][j] - admitted[k][i] >= minInterval(k)

\* C23, the step part: a call that ends rejected leaves the recorded times
\* as they were, and no step of a call on one key changes the time recorded
\* for another key.
C23_Step ==
    \A c \in RateCallers :
        (rlpc[c] = "check" /\ rlpc'[c] = "idle") =>
            /\ rlres'[c] = "rejected" => rateLimiter' = rateLimiter
            /\ \A k \in Keys \ {operation[c]} :
                  rateLimiter'[k] = rateLimiter[k] /\ admitted'[k] = admitted[k]

\* C23: admitted calls on one key are minInterval apart, a rejected call
\* records nothing, and keys do not affect each other.
C23_RateLimit == []C23_Spaced /\ [][C23_Step]_vars

\* Two callers raced on one key: one was admitted, the other rejected, and
\* the key later admitted a second call; the other key was used as well.
C23_Witness ==
    /\ Len(admitted["reply_comment_a_BV1"]) >= 2
    /\ Len(admitted["like_video_a_BV1"]) >= 1
    /\ \E c \in RateCallers :
          rlres[c] = "rejected" /\ operation[c] = "reply_comment_a_BV1"

(***************************************************************************)
(* C24                                                                     *)
(***************************************************************************)
\* The steps of GetWithAuth that load the credentials.
CredentialSteps == {"GetDefaultAccount", "LoadCookies"}

\* C24, the step part: a credential step either moves on or ends the call
\* (it never goes back to an earlier step); when it ends the call the result
\* is the authentication failure, the sub-context is closed, the instance is
\* free and back in the channel after exactly one Put, and neither the
\* account list nor the cookie files have changed.
C24_Step ==
    \A c \in Callers :
        pc[c] \in CredentialSteps =>
            /\ pc'[c] \in {pc[c], "idle", "LoadCookies", "AddCookies"}
            /\ pc'[c] = "idle" =>
                  /\ result'[c] \in {"default_account_error", "load_cookies_error"}
                  /\ ~ctxOpen'[c]
                  /\ held'[c] = NoInstance
                  /\ ~InUse'[held[c]]
                  /\ held[c] \in Range(available')
                  /\ nputs'[c] = 1
                  /\ accounts' = accounts
                  /\ cookieFiles' = cookieFiles

\* C24: a failed credential load ends GetWithAuth with the authentication
\* failure, without a retry, with the sub-context closed, the instance back
\* in the available set and the credential store untouched.
C24_CredentialFailure == [][C24_Step]_vars

\* Both failures have happened: one call ended on the default-account
\* lookup, another on the cookie load, and the pool is whole again.
C24_Witness ==
    /\ \E c \in Callers : pc[c] = "idle" /\ result[c] = "default_account_error"
    /\ \E c \in Callers : pc[c] = "idle" /\ result[c] = "load_cookies_error"
    /\ Len(available) = PoolSize

(***************************************************************************)
(* C25                                                                     *)
(***************************************************************************)
\* The file names among a request's destination paths.
PathSet(entry) == {entry.paths[a] : a \in DOMAIN entry.paths}

\* C25: destination paths are distinct by construction: two requests that
\* differ in video id or in part (cid) share no destination path, and two
\* requests that differ in the selected video track have different video
\* and merged paths.
C25_DistinctPaths ==
    \A i, j \in DOMAIN destinations :
        LET r == destinations[i].req
            t == destinations[j].req
        IN  /\ (r.VideoID # t.VideoID \/ r.CID # t.CID)
                  => PathSet(destinations[i]) \cap PathSet(destinations[j]) = {}
            /\ r.Quality # t.Quality
                  => \A a \in (DOMAIN destinations[i].paths \cap DOMAIN destinations[j].paths)
                              \ {"audio"} :
                        destinations[i].paths[a] # destinations[j].paths[a]

(***************************************************************************)
(* C26                                                                     *)
(***************************************************************************)
\* C26: under concurrent download requests, two for the same destination
\* included, a file is at the final path only with all of its bytes: the
\* file the name "final" refers to holds every chunk of the body.
C26_FinalIsComplete ==
    dirent["final"] # NoFile => inode[dirent["final"]] = Body

(***************************************************************************)
(* C27                                                                     *)
(***************************************************************************)
\* C27, the state part: a caller that Get served holds a real instance, no
\* Get has dereferenced a nil instance and no Put has sent on the closed
\* channel.
C27_NoPanic ==
    \A c \in Callers :
        /\ pc[c] \in {"holding", "PutSend"} => held[c] \in Instances
        /\ pc[c] # "panicked"

\* C27, the step part: a Get that is at the select when the pool is closed
\* ends with the pool-closed or the timeout error.
C27_Step ==
    \A c \in Callers :
        (closed /\ pc[c] = "Get" /\ pc'[c] # "Get")
            => pc'[c] = "idle" /\ result'[c] \in {"closed", "timeout"}

\* C27: closing the pool is safe against concurrent Get and Put.
C27_CloseIsSafe == []C27_NoPanic /\ [][C27_Step]_vars

(***************************************************************************)
(* C28                                                                     *)
(***************************************************************************)
TempFiles == {"audio.downloading", "video.downloading"}

\* C28: in a merged download of the split representation the two artifacts
\* are committed independently. A call whose audio transfer succeeded and
\* whose video transfer failed has returned an error, the audio file is at
\* its final path, and no video file and no temp file is left. A later call
\* that finds only the audio file and succeeds has transferred the video
\* alone and returns the merge command with both files at their paths.
C28_IndependentCommit ==
    /\ (/\ dpc = "failed"
        /\ derr = "video download failed"
        /\ [kind |-> "audio", ok |-> TRUE] \in Range(transfers))
          => /\ dresult = NilResult
             /\ "audio" \in outputDir
             /\ "video" \notin outputDir
             /\ outputDir \cap TempFiles = {}
    /\ (dpc = "done" /\ atCall.dir \cap Artifacts = {"audio"})
          => /\ transfers = <<[kind |-> "video", ok |-> TRUE]>>
             /\ "audio" \in statted
             /\ dresult.MergeCommand
             /\ dresult.Paths = {"audio", "video", "merged"}
             /\ {"audio", "video"} \subseteq outputDir

\* The later call of the claim has returned: the call before it failed on
\* the video, this one found the audio file, transferred the video and
\* built the merge command.
C28_Witness ==
    /\ dpc = "done"
    /\ atCall = [dir |-> {"audio"}, prev |-> "video download failed"]
    /\ transfers = <<[kind |-> "video", ok |-> TRUE]>>
    /\ dresult.MergeCommand

(***************************************************************************)
(* C29                                                                     *)
(***************************************************************************)
\* The artifacts that are at their final paths when the call returns: found
\* by os.Stat or transferred.
AtFinalPath ==
    statted \cup {t.kind : t \in {u \in Range(transfers) : u.ok}}

\* C29: in every successful merged-download result the resolver's tag and
\* the artifacts agree: CurrentQuality.HasAudio holds exactly when
\* MergeRequired is false and only the merged path is set; and a merge
\* command implies MergeRequired and the audio and the video file at their
\* final paths.
C29_TagMatchesArtifacts ==
    (dpc = "done" /\ dopts.MediaType = "merged") =>
        /\ dresult.CurrentQuality.HasAudio
              <=> (~dresult.MergeRequired /\ dresult.Paths = {"merged"})
        /\ dresult.MergeCommand
              => dresult.MergeRequired /\ {"audio", "video"} \subseteq AtFinalPath

(***************************************************************************)
(* C30                                                                     *)
(***************************************************************************)
\* The stored accounts marked default.
Defaults == {i \in DOMAIN accounts : accounts[i].IsDefault}

\* C30, the state part: at most one stored account is marked default, and
\* right after a successful SetDefaultAccount(name) the accounts marked
\* default are exactly those called name.
C30_OneDefault ==
    /\ Cardinality(Defaults) <= 1
    /\ (lastOp.op = "SetDefaultAccount" /\ lastOp.ok)
          => /\ Defaults # {}
             /\ \A i \in DOMAIN accounts :
                   accounts[i].IsDefault <=> accounts[i].Name = lastOp.name

\* C30, the step part: SetDefaultAccount or DeleteAccount on a name that is
\* not stored returns an error and leaves the stored list as it was.
C30_Step ==
    (/\ lastOp'.op \in {"SetDefaultAccount", "DeleteAccount"}
     /\ lastOp'.name \notin StoredNames)
        => ~lastOp'.ok /\ accounts' = accounts /\ cookieFiles' = cookieFiles

\* C30: the account operations keep at most one default account.
C30_DefaultAccount == []C30_OneDefault /\ [][C30_Step]_vars

\* Three accounts are stored and SetDefaultAccount has just moved the mark
\* from the first account (default since it was the only one) to the
\* second.
C30_Witness ==
    /\ Len(accounts) = 3
    /\ accounts[2].IsDefault
    /\ lastOp = Op("SetDefaultAccount", accounts[2].Name, TRUE)

====
